---- MODULE Spec2Model ----
(***************************************************************************)
(* SF-Github-Project-Helper: the orchestration pipeline that moves         *)
(* Salesforce metadata into a Git repository.  The model follows the       *)
(* latest revision of the script (src/unnamed/part_001).                   *)
(*                                                                         *)
(* JavaScript runs one job at a time: an action of this model is one run   *)
(* of the event loop, from the delivery of an I/O event (the exit of a     *)
(* child process, a line typed at a prompt) through every continuation     *)
(* that becomes runnable without further I/O, up to the next await of a    *)
(* pending promise.  Strings are sequences of one-character strings.       *)
(*                                                                         *)
(* Spec is a session in which the user starts one batch (menu 5 or 6 and   *)
(* 'y') and may run 'git remote show origin' (menu 2) at any prompt;        *)
(* SpecName applies the branch-name derivation to every short label.       *)
(***************************************************************************)
EXTENDS Integers, Sequences, FiniteSets, TLC

VARIABLES
    config,          \* the merged configuration object (part_001:33-38, 55)
    batch,           \* changeSetsToFetchArray: the labels of the batch
    idx,             \* position of the for-loop of populateAndPushBranches
    bpc,             \* where populateAndPushBranches is suspended
    downloadedFiles, \* the array returned by fetchChangeSets
    returnedFiles,   \* the contents of that array when fetchChangeSets returned
    addIdx,          \* position of the staging loop
    procs,           \* child processes spawned by runCommand and not yet exited
    watchers,        \* fs.watch handles that are open
    trace,           \* what the flow did for the current unit, in order
    unitFailed,      \* a command of the current unit has exited non-zero
    folders,         \* downloadedPackagesFolder: label -> state of its folder
    gitBranches,     \* local branches of the repository
    gitHead,         \* the branch that is checked out
    menuPrompts,     \* displayMenu invocations waiting at 'Enter Selection'
    confirmPrompts,  \* getChangesetsFrom* invocations waiting at 'Y/N'
    branchExists,    \* what the promise of checkIfBranchExists was last resolved with
    hostExited,      \* the node process has terminated
    packageName,     \* argument of convertPackgeNameToGitName
    gitName,         \* its result
    gitNameAgain,    \* the result of deriving again from gitName
    nameStep,        \* how many derivations were made
    fsEvents,        \* the (eventType, filename) pairs the watcher callback was called with
    modifiedFiles,   \* the array the watcher callback pushes to
    watchPc,         \* whether the retrieval under watch has been awaited
    child,           \* the process spawned by the runCommand under test
    pipes,           \* chunks it wrote to stdout and stderr that are not yet delivered
    arrived,         \* the chunks delivered by 'data' events, in arrival order
    outputSoFar,     \* the variable output of runCommand's promise executor
    promise,         \* the promise runCommand returned
    mpc,             \* where getPackageXML is suspended
    mFile,           \* packageFileLocation as entered at the prompt
    mBranch,         \* branchName as entered at the prompt
    mFiles,          \* modifiedFiles of getPackageXML
    mAddIdx,         \* position of its staging loop
    mProcs,          \* child processes of the manifest flow that have not exited
    mWatcher,        \* its fs.watch handle is open
    mTrace,          \* prompts shown, commands spawned and awaited exits, in order
    prTitle,         \* title in submitGithubPullRequest
    prDescription,   \* description in submitGithubPullRequest
    loadedConfig,    \* what loadConfig read from config.json
    mergedConfig,    \* config after line 55 of init
    initPc,          \* how far init has come
    logCalls,        \* logItem of every call of log, in call order
    pendingAppends,  \* calls whose fs.appendFile has not completed
    logFile,         \* lines of log.txt, each named by the call that wrote it
    copySource,      \* the folder of the change set under downloadedPackagesFolder, as a tree
    copyDisk,        \* directories and files below force-app\main\default
    copyCalls,       \* how often copyPackageIntoProjectFolder was called
    copyThrown,      \* the exception its last call ended with
    fNames,          \* changeSetNames of the fetchChangeSets call under test
    fCopy,           \* its argument copyToProjectFolder
    fFolders,        \* downloadedPackagesFolder as that call finds it
    fpc,             \* where that call is: idle, retrieve, returned, rejected
    fIssued,         \* the change sets it has started a retrieval for, in order
    fModified,       \* its array modifiedFiles
    fWatchers,       \* how many fs.watch handles it has left open
    fReturned,       \* the array it returned
    wpc,             \* where configWizard is suspended, or how it ended
    wTrace,          \* commands spawned and exited, directory changes and notices of configWizard, in order
    wCwd,            \* process.cwd() as its depth below the directory the program was started in
    wDisk,           \* which of the project folder, its .git and .sfdx folders and temp_token exist
    wRuns,           \* how often configWizard was invoked from the menu
    navDirs,         \* the directories that exist, each as its absolute path
    navGit,          \* the project folder below the root holds a .git folder
    navStart,        \* process.cwd() when the function under test was called
    navCwd,          \* process.cwd()
    navUps,          \* how often navigateToProjectDir called process.chdir('..')
    navPc,           \* idle, navigated, clone, returned or skipped
    maskInput,       \* the string given to the maskString under test
    maskPercent,     \* its argument maskPercent
    maskOutput,      \* what it returned
    maskPc,          \* idle, ready or done
    secToken,        \* config.githubPersonalAccessToken, as characters
    secUrl,          \* config.githubRepoUrl, as characters
    secLog,          \* the logItem of every call of log made by authorizeGithubCLI and connectToRepo
    secPc,           \* where the authorization and the clone stand
    exitCause,       \* what ended the process: none, finish or uncaughtException
    exitStatus       \* the argument of process.exit, -1 while the process runs

flowVars == <<config, batch, idx, bpc, downloadedFiles, returnedFiles, addIdx, procs, watchers,
              trace, unitFailed, folders, gitBranches, gitHead, menuPrompts,
              confirmPrompts, branchExists, hostExited>>
nameVars == <<packageName, gitName, gitNameAgain, nameStep>>
watchVars == <<fsEvents, modifiedFiles, watchPc>>
runVars == <<child, pipes, arrived, outputSoFar, promise>>
manifestVars == <<mpc, mFile, mBranch, mFiles, mAddIdx, mProcs, mWatcher, mTrace,
                  prTitle, prDescription>>
initVars == <<loadedConfig, mergedConfig, initPc>>
logVars == <<logCalls, pendingAppends, logFile>>
copyVars == <<copySource, copyDisk, copyCalls, copyThrown>>
fetchVars == <<fNames, fCopy, fFolders, fpc, fIssued, fModified, fWatchers, fReturned>>
wizardVars == <<wpc, wTrace, wCwd, wDisk, wRuns>>
navVars == <<navDirs, navGit, navStart, navCwd, navUps, navPc>>
maskVars == <<maskInput, maskPercent, maskOutput, maskPc>>
secretVars == <<secToken, secUrl, secLog, secPc>>
exitVars == <<exitCause, exitStatus>>
compVars == <<watchVars, runVars, manifestVars, initVars, logVars, copyVars, fetchVars, wizardVars, navVars, maskVars, secretVars, exitVars>>
exceptWatch == <<flowVars, nameVars, runVars, manifestVars, initVars, logVars, copyVars, fetchVars, wizardVars, navVars, maskVars, secretVars, exitVars>>
exceptRun == <<flowVars, nameVars, watchVars, manifestVars, initVars, logVars, copyVars, fetchVars, wizardVars, navVars, maskVars, secretVars, exitVars>>
exceptManifest == <<flowVars, nameVars, watchVars, runVars, initVars, logVars, copyVars, fetchVars, wizardVars, navVars, maskVars, secretVars, exitVars>>
exceptInit == <<flowVars, nameVars, watchVars, runVars, manifestVars, logVars, copyVars, fetchVars, wizardVars, navVars, maskVars, secretVars, exitVars>>
exceptLog == <<flowVars, nameVars, watchVars, runVars, manifestVars, initVars, copyVars, fetchVars, wizardVars, navVars, maskVars, secretVars, exitVars>>
exceptCopy == <<flowVars, nameVars, watchVars, runVars, manifestVars, initVars, logVars, fetchVars, wizardVars, navVars, maskVars, secretVars, exitVars>>
exceptFetch == <<flowVars, nameVars, watchVars, runVars, manifestVars, initVars, logVars, copyVars, wizardVars, navVars, maskVars, secretVars, exitVars>>
exceptFetchCopy == <<flowVars, nameVars, watchVars, runVars, manifestVars, initVars, logVars, wizardVars, navVars, maskVars, secretVars, exitVars>>
exceptWizard == <<flowVars, nameVars, watchVars, runVars, manifestVars, initVars, logVars, copyVars, fetchVars, navVars, maskVars, secretVars, exitVars>>
exceptNav == <<flowVars, nameVars, watchVars, runVars, manifestVars, initVars, logVars, copyVars, fetchVars, wizardVars, maskVars, secretVars, exitVars>>
exceptMask == <<flowVars, nameVars, watchVars, runVars, manifestVars, initVars, logVars, copyVars, fetchVars, wizardVars, navVars, secretVars, exitVars>>
exceptSecret == <<flowVars, nameVars, watchVars, runVars, manifestVars, initVars, logVars, copyVars, fetchVars, wizardVars, navVars, maskVars, exitVars>>
exceptExit == <<flowVars, nameVars, watchVars, runVars, manifestVars, initVars, logVars, copyVars, fetchVars, wizardVars, navVars, maskVars, secretVars>>
vars == <<flowVars, nameVars, compVars>>

----------------------------------------------------------------------------
(* Bounds *)
MaxUnits == 2       \* longest batch
MaxEvents == 2      \* most file events delivered to a watcher in one retrieval
MaxLen == 3         \* longest label given to the name derivation
MaxLate == 1        \* most file events delivered to a watcher after its retrieval returned
MaxWatched == 4     \* most file events delivered to the watcher under test
MaxChunks == 2      \* most chunks a process writes to its output streams
MaxLogCalls == 3    \* most calls of log

----------------------------------------------------------------------------
(* Strings *)
Whitespace == {" ", "\t"}
Chars == {"a", "-"} \cup Whitespace

RECURSIVE StringsUpTo(_)
StringsUpTo(n) ==
    IF n = 0 THEN {<<>>}
    ELSE LET shorter == StringsUpTo(n - 1)
         IN  shorter \cup {Append(s, c) : s \in {t \in shorter : Len(t) = n - 1}, c \in Chars}

ChangeSetOne == <<"C","h","a","n","g","e"," ","S","e","t"," ","O","n","e">>
ChangeSetTwo == <<"C","h","a","n","g","e"," ","S","e","t"," ","T","w","o">>
Labels == {ChangeSetOne, ChangeSetTwo}

HEAD == <<"H","E","A","D">>
Main == <<"m","a","i","n">>
Undefined == <<"u","n","d","e","f","i","n","e","d">>
DotXml == <<".","x","m","l">>
Files == { <<"a",".","x","m","l">>, <<"b",".","t","x","t">>, <<"c",".","x","m","l">> }

\* The text of the <description> element of a change set's package.xml.
Description(label) == <<"d","e","s","c",":">> \o label

RECURSIVE SeqsUpTo(_, _)
SeqsUpTo(S, n) ==
    IF n = 0 THEN {<<>>}
    ELSE LET shorter == SeqsUpTo(S, n - 1)
         IN  shorter \cup {Append(s, x) : s \in {t \in shorter : Len(t) = n - 1}, x \in S}

\* String.prototype.endsWith
endsWith(s, suffix) ==
    /\ Len(s) >= Len(suffix)
    /\ SubSeq(s, Len(s) - Len(suffix) + 1, Len(s)) = suffix

\* [...new Set(list)]: first occurrences, in insertion order
RECURSIVE removeDuplicates(_)
removeDuplicates(list) ==
    IF list = <<>> THEN <<>>
    ELSE LET front == removeDuplicates(SubSeq(list, 1, Len(list) - 1))
             last == list[Len(list)]
         IN  IF \E i \in 1..Len(front) : front[i] = last THEN front ELSE Append(front, last)

\* (eventType, filename) => { if(filename.endsWith('.xml')) modifiedFiles.push(filename) }
watcherPushAny(list, filename) == Append(list, filename)
watcherPush(list, filename) ==
    IF endsWith(filename, DotXml) THEN Append(list, filename) ELSE list

\* The watcher callback applied to the events of one retrieval, in order.
RECURSIVE watcherCallback(_)
watcherCallback(events) ==
    IF events = <<>> THEN <<>>
    ELSE LET front == watcherCallback(SubSeq(events, 1, Len(events) - 1))
             filename == events[Len(events)]
         IN  IF endsWith(filename, DotXml) THEN Append(front, filename) ELSE front

----------------------------------------------------------------------------
(* convertPackgeNameToGitName: packageName.replace(/\s/g, "-") *)

\* replace with the pattern /\s/ (no g flag): only the first match
RECURSIVE replaceFirst(_, _)
replaceFirst(s, from) ==
    IF from > Len(s) THEN s
    ELSE IF s[from] \in Whitespace
         THEN SubSeq(s, 1, from - 1) \o <<"-">> \o SubSeq(s, from + 1, Len(s))
         ELSE replaceFirst(s, from + 1)

\* replace with the pattern /\s+/g: one hyphen per run of whitespace
RECURSIVE replaceRuns(_, _)
replaceRuns(s, from) ==
    IF from > Len(s) THEN <<>>
    ELSE IF s[from] \in Whitespace
         THEN IF from > 1 /\ s[from - 1] \in Whitespace
              THEN replaceRuns(s, from + 1)
              ELSE <<"-">> \o replaceRuns(s, from + 1)
         ELSE <<s[from]>> \o replaceRuns(s, from + 1)

\* replace with the pattern /\s/g: the scan restarts after every match
RECURSIVE replaceAll(_, _)
replaceAll(s, from) ==
    IF from > Len(s) THEN <<>>
    ELSE IF s[from] \in Whitespace
         THEN <<"-">> \o replaceAll(s, from + 1)
         ELSE <<s[from]>> \o replaceAll(s, from + 1)

convertFirstOnly(name) == replaceFirst(name, 1)
convertRuns(name) == replaceRuns(name, 1)
convertPackgeNameToGitName(name) == replaceAll(name, 1)

----------------------------------------------------------------------------
(* JavaScript values that the branch check handles *)
Promise == [t |-> "promise"]
CommandResult(code) == [t |-> "object", exit_code |-> code]

\* ToBoolean
Truthy(v) ==
    CASE v.t = "promise" -> TRUE
      [] v.t = "object" -> TRUE
      [] v.t = "boolean" -> v.v
      [] v.t = "number" -> v.v # 0
      [] OTHER -> FALSE

\* What a caller that does not await gets from the async checkIfBranchExists.
checkIfBranchExists(branchName) == Promise

\* What that promise is later resolved with: outputSoFar is the result object of
\* runCommand, it has no length and is not loosely equal to 0.
checkIfBranchExistsResolved(output) ==
    LET hasLength == output.t \in {"string", "array"}
        looseEqZero == output.t = "number" /\ output.v = 0
    IN  [t |-> "boolean", v |-> (hasLength \/ looseEqZero)]

----------------------------------------------------------------------------
(* Command lines *)
Cmd(kind, arg) == [kind |-> kind, arg |-> arg]

branchQueryCmd(branchName) == Cmd("branch-l", branchName)        \* git branch -l <name>)
branchCreateCmd(branchName) == Cmd("branch-f", branchName)       \* git branch <name> -f
changeToGitBranchRaw(branchName) == Cmd("checkout-b", branchName)
changeToGitBranch(branchName) ==                                 \* git checkout -b <name>
    Cmd("checkout-b", convertPackgeNameToGitName(branchName))
pushBranchToRemote(branchName) == Cmd("push", HEAD)              \* git push -u origin HEAD
gitCommit(commitMessage) == Cmd("commit", commitMessage)         \* git commit -m "<msg>" -a
gitAdd(fileName) == Cmd("add", fileName)                         \* git add <file>
retrieveChangeSet(changeSetName) == Cmd("retrieve-p", changeSetName)
remoteShow == Cmd("remote-show", <<>>)                           \* git remote show origin

\* The commands createGitBranch issues before it returns.
createGitBranch(branchName) ==
    LET name == convertPackgeNameToGitName(branchName)
    IN  <<branchQueryCmd(name)>> \o
        (IF ~Truthy(checkIfBranchExists(name)) THEN <<branchCreateCmd(name)>> ELSE <<>>)

StagingKinds == {"add", "commit", "push"}

----------------------------------------------------------------------------
(* Processes, audit entries and the outside world *)

\* A child process between spawn and exit.  afterFail records whether a
\* command of the same unit had already exited non-zero when it was spawned.
Proc(flow, unit, cmd, failed) ==
    [flow |-> flow, unit |-> unit, cmd |-> cmd, afterFail |-> failed]

NoCmd == Cmd("", <<>>)
Spawned(cmd, info) == [ev |-> "spawn", cmd |-> cmd, info |-> info]
Logged(tag) == [ev |-> "log", cmd |-> NoCmd, info |-> tag]
Marked(ev, info) == [ev |-> ev, cmd |-> NoCmd, info |-> info]

Watcher(flow, unit) == [flow |-> flow, unit |-> unit]

\* Exit codes a command can produce: 'git checkout -b' fails when the branch
\* exists, every command can fail for reasons outside the script.
ExitCodes(cmd) ==
    IF cmd.kind = "checkout-b" /\ cmd.arg \in gitBranches THEN {1} ELSE {0, 1}

BranchesAfter(cmd, code) ==
    IF code = 0 /\ cmd.kind \in {"checkout-b", "branch-f"}
    THEN gitBranches \cup {cmd.arg} ELSE gitBranches

HeadAfter(cmd, code) ==
    IF code = 0 /\ cmd.kind = "checkout-b" THEN cmd.arg ELSE gitHead

\* fs.existsSync(`${config.downloadedPackagesFolder}\\${changeSetName}`)
folderExists(fs, changeSetName) == fs[changeSetName] # "none"

\* The guard of the skip branch of fetchChangeSets.
skipNever(fs, changeSetName) == FALSE
skipDownload(fs, changeSetName) ==
    config.skipExistingChangeSets /\ folderExists(fs, changeSetName)

\* getPackageXMLAsObject: readFileSync throws when the file is missing.
getPackageXMLAsObject(fs, folderName) ==
    CASE fs[folderName] = "none" -> [t |-> "throw", description |-> Undefined]
      [] fs[folderName] = "desc" -> [t |-> "object", description |-> Description(folderName)]
      [] OTHER -> [t |-> "object", description |-> Undefined]

\* What fetchChangeSets returns for one retrieved change set and whether it
\* closed its watcher on the way: without copyToProjectFolder the return
\* statement comes before watcher.close().
fetchReturn(copyToProjectFolder, downloadEvents, copyEvents) ==
    IF ~copyToProjectFolder
    THEN [files |-> removeDuplicates(watcherCallback(downloadEvents)), closed |-> FALSE]
    ELSE [files |-> removeDuplicates(watcherCallback(copyEvents)), closed |-> TRUE]

----------------------------------------------------------------------------
(* populateAndPushBranches, one segment per await *)

\* Lines 563-572 from position k of the staging loop: the next 'git add', or
\* past the loop the commit with the description of package.xml.
Staging(files, k, ps, tr, fs, failed) ==
    IF k <= Len(files)
    THEN /\ bpc' = "add"
         /\ addIdx' = k
         /\ procs' = ps \cup {Proc("batch", idx, gitAdd(files[k]), failed)}
         /\ trace' = Append(tr, Spawned(gitAdd(files[k]), ""))
         /\ UNCHANGED hostExited
    ELSE LET xml == getPackageXMLAsObject(fs, batch[idx])
         IN  IF xml.t = "throw"
             THEN /\ bpc' = "crashed"
                  /\ addIdx' = k
                  /\ procs' = ps
                  /\ trace' = Append(tr, Marked("throw", ""))
                  \* the rejection of the un-awaited promise is unhandled: the
                  \* runtime either only warns or ends the process
                  /\ hostExited' \in BOOLEAN
             ELSE /\ bpc' = "commit"
                  /\ addIdx' = k
                  /\ procs' = ps \cup {Proc("batch", idx, gitCommit(xml.description), failed)}
                  /\ trace' = Append(tr, Spawned(gitCommit(xml.description), ""))
                  /\ UNCHANGED hostExited

\* Lines 551-556 for unit i: createGitBranch, then changeToGitBranch up to
\* its runCommand.
BeginUnit(i, ps) ==
    LET label == batch[i]
        cmds == createGitBranch(label)
        existed == IF cmds[1].arg \in gitBranches THEN "exists" ELSE "absent"
        tr == <<Logged("processing"), Spawned(cmds[1], existed)>>
        query == Proc("batch", i, cmds[1], FALSE)
        next == IF Len(cmds) > 1 THEN cmds[2] ELSE changeToGitBranch(label)
    IN  /\ idx' = i
        /\ unitFailed' = FALSE
        /\ downloadedFiles' = <<>>
        /\ returnedFiles' = <<>>
        /\ addIdx' = 0
        /\ bpc' = IF Len(cmds) > 1 THEN "create" ELSE "checkout"
        /\ procs' = ps \cup {query, Proc("batch", i, next, FALSE)}
        /\ trace' = Append(tr, Spawned(next, ""))

Awaited(kind) ==
    {p \in procs : p.flow = "batch" /\ p.unit = idx /\ p.cmd.kind = kind}

\* The exit of the un-awaited 'git branch -l': checkIfBranchExists resumes
\* and resolves a promise nobody reads.
BranchQueryExit ==
    /\ ~hostExited
    /\ \E p \in {q \in procs : q.flow = "batch" /\ q.cmd.kind = "branch-l"} :
       \E code \in ExitCodes(p.cmd) :
          /\ procs' = procs \ {p}
          /\ unitFailed' = (unitFailed \/
                (code # 0 /\ p.unit = idx /\ bpc \notin {"done", "crashed"}))
          /\ branchExists' = checkIfBranchExistsResolved(CommandResult(code))
    /\ UNCHANGED <<config, batch, idx, bpc, downloadedFiles, returnedFiles, addIdx, watchers, trace,
                   folders, gitBranches, gitHead, menuPrompts, confirmPrompts, hostExited, nameVars, compVars>>

\* The exit of 'git branch <name> -f' or of 'git checkout -b <name>'; after
\* the checkout, fetchChangeSets([branchName]) up to its first await or its
\* return (lines 559, 470-485).
BranchExit ==
    /\ ~hostExited
    /\ bpc \in {"create", "checkout"}
    /\ \E p \in Awaited(IF bpc = "create" THEN "branch-f" ELSE "checkout-b") :
       \E code \in ExitCodes(p.cmd) :
          LET failed == unitFailed \/ code # 0
              ps == procs \ {p}
              label == batch[idx]
          IN  /\ unitFailed' = failed
              /\ gitBranches' = BranchesAfter(p.cmd, code)
              /\ gitHead' = HeadAfter(p.cmd, code)
              /\ IF bpc = "create"
                 THEN /\ bpc' = "checkout"
                      /\ procs' = ps \cup {Proc("batch", idx, changeToGitBranch(label), failed)}
                      /\ trace' = Append(trace, Spawned(changeToGitBranch(label), ""))
                      /\ UNCHANGED <<watchers, downloadedFiles, returnedFiles, addIdx, hostExited>>
                 ELSE LET tr == Append(trace, Marked("fetch",
                                  IF folderExists(folders, label) THEN "exists" ELSE "absent"))
                      IN  IF skipDownload(folders, label)
                          THEN /\ downloadedFiles' = <<>>
                               /\ returnedFiles' = <<>>
                               /\ UNCHANGED watchers
                               /\ Staging(<<>>, 1, ps,
                                          tr \o <<Logged("skip"), Logged("staging")>>,
                                          folders, failed)
                          ELSE /\ bpc' = "retrieve"
                               /\ watchers' = watchers \cup {Watcher("batch", idx)}
                               /\ procs' = ps \cup {Proc("batch", idx, retrieveChangeSet(label), failed)}
                               /\ trace' = tr \o <<Logged("fetching"), Marked("watch", ""),
                                                   Spawned(retrieveChangeSet(label), "")>>
                               /\ UNCHANGED <<downloadedFiles, returnedFiles, addIdx, hostExited>>
    /\ UNCHANGED <<config, batch, idx, folders, menuPrompts, confirmPrompts, branchExists, nameVars, compVars>>

\* The exit of the retrieval: the rest of fetchChangeSets (lines 489-493),
\* then the staging loop of the caller.
RetrieveExit ==
    /\ ~hostExited
    /\ bpc = "retrieve"
    /\ \E p \in Awaited("retrieve-p") :
       \E code \in ExitCodes(p.cmd), written \in {"desc", "nodesc"},
          ret \in {fetchReturn(FALSE, events, <<>>) : events \in SeqsUpTo(Files, MaxEvents)} :
          LET failed == unitFailed \/ code # 0
              label == batch[idx]
              fs == IF code = 0 THEN [folders EXCEPT ![label] = written] ELSE folders
              tr == IF ret.closed THEN Append(trace, Marked("close", "")) ELSE trace
          IN  /\ unitFailed' = failed
              /\ folders' = fs
              /\ downloadedFiles' = ret.files
              /\ returnedFiles' = ret.files
              /\ watchers' = IF ret.closed THEN watchers \ {Watcher("batch", idx)} ELSE watchers
              /\ Staging(ret.files, 1, procs \ {p}, Append(tr, Logged("staging")), fs, failed)
    /\ UNCHANGED <<config, batch, idx, gitBranches, gitHead, menuPrompts, confirmPrompts, branchExists, nameVars, compVars>>

\* The exit of a 'git add': the next file, or the commit.
AddExit ==
    /\ ~hostExited
    /\ bpc = "add"
    /\ \E p \in Awaited("add") :
       \E code \in ExitCodes(p.cmd) :
          LET failed == unitFailed \/ code # 0
          IN  /\ unitFailed' = failed
              /\ Staging(downloadedFiles, addIdx + 1, procs \ {p}, trace, folders, failed)
    /\ UNCHANGED <<config, batch, idx, downloadedFiles, returnedFiles, watchers, folders, gitBranches,
                   gitHead, menuPrompts, confirmPrompts, branchExists, nameVars, compVars>>

\* A file event delivered to the watcher of the current unit after
\* fetchChangeSets has returned: the watcher was not closed, and the array its
\* callback pushes to is the one the staging loop is iterating (lines 482,
\* 490-491, 564).
LateWatcherEvent ==
    /\ ~hostExited
    /\ bpc = "add"
    /\ Watcher("batch", idx) \in watchers
    /\ Len(downloadedFiles) < Len(returnedFiles) + MaxLate
    /\ \E filename \in Files :
          downloadedFiles' = watcherPush(downloadedFiles, filename)
    /\ UNCHANGED <<config, batch, idx, bpc, returnedFiles, addIdx, procs, watchers, trace,
                   unitFailed, folders, gitBranches, gitHead, menuPrompts, confirmPrompts,
                   branchExists, hostExited, nameVars, compVars>>
\* The exit of 'git commit': pushBranchToRemote (line 575).
CommitExit ==
    /\ ~hostExited
    /\ bpc = "commit"
    /\ \E p \in Awaited("commit") :
       \E code \in ExitCodes(p.cmd) :
          LET failed == unitFailed \/ code # 0
              push == pushBranchToRemote(batch[idx])
          IN  /\ unitFailed' = failed
              /\ bpc' = "push"
              /\ procs' = (procs \ {p}) \cup {Proc("batch", idx, push, failed)}
              /\ trace' = Append(trace, Spawned(push, ""))
    /\ UNCHANGED <<config, batch, idx, downloadedFiles, returnedFiles, addIdx, watchers, folders,
                   gitBranches, gitHead, menuPrompts, confirmPrompts,
                   hostExited, branchExists, nameVars, compVars>>

\* The exit of 'git push': the next iteration of the loop, or its end.
PushExit ==
    /\ ~hostExited
    /\ bpc = "push"
    /\ \E p \in Awaited("push") :
       \E code \in ExitCodes(p.cmd) :
          IF idx < Len(batch)
          THEN BeginUnit(idx + 1, procs \ {p})
          ELSE /\ bpc' = "done"
               /\ procs' = procs \ {p}
               /\ unitFailed' = (unitFailed \/ code # 0)
               /\ UNCHANGED <<idx, downloadedFiles, returnedFiles, addIdx, trace>>
    /\ UNCHANGED <<config, batch, watchers, folders, gitBranches, gitHead, menuPrompts,
                   confirmPrompts, hostExited, branchExists, nameVars, compVars>>

----------------------------------------------------------------------------
(* displayMenu and the batch entry points *)

\* case '2': await runCommand('git remote show origin')
MenuShowRemote ==
    /\ ~hostExited
    /\ menuPrompts > 0
    /\ menuPrompts' = menuPrompts - 1
    /\ procs' = procs \cup {Proc("menu", 0, remoteShow, FALSE)}
    /\ UNCHANGED <<config, batch, idx, bpc, downloadedFiles, returnedFiles, addIdx, watchers, trace,
                   unitFailed, folders, gitBranches, gitHead, confirmPrompts,
                   hostExited, branchExists, nameVars, compVars>>

\* ... and its exit: displayMenu calls itself (line 168)
MenuCommandExit ==
    /\ ~hostExited
    /\ \E p \in {q \in procs : q.flow = "menu"} :
          procs' = procs \ {p}
    /\ menuPrompts' = menuPrompts + 1
    /\ UNCHANGED <<config, batch, idx, bpc, downloadedFiles, returnedFiles, addIdx, watchers, trace,
                   unitFailed, folders, gitBranches, gitHead, confirmPrompts,
                   hostExited, branchExists, nameVars, compVars>>

\* case '5' / case '6': getChangesetsFromFile / getChangeSetsFromInput up to
\* the 'Y/N' prompt
MenuChangeSets ==
    /\ ~hostExited
    /\ menuPrompts > 0
    /\ bpc = "idle"
    /\ menuPrompts' = menuPrompts - 1
    /\ confirmPrompts' = confirmPrompts + 1
    /\ UNCHANGED <<config, batch, idx, bpc, downloadedFiles, returnedFiles, addIdx, procs, watchers,
                   trace, unitFailed, folders, gitBranches, gitHead,
                   hostExited, branchExists, nameVars, compVars>>

\* 'y' or 'yes': populateAndPushBranches is called and not awaited; it runs
\* to its first pending await, the caller returns and displayMenu calls itself.
ConfirmYes ==
    /\ ~hostExited
    /\ confirmPrompts > 0
    /\ bpc = "idle"
    /\ confirmPrompts' = confirmPrompts - 1
    /\ menuPrompts' = menuPrompts + 1
    /\ BeginUnit(1, procs)
    /\ UNCHANGED <<config, batch, watchers, folders, gitBranches, gitHead,
                   hostExited, branchExists, nameVars, compVars>>

----------------------------------------------------------------------------
(* The batch session *)

NameIdle ==
    /\ packageName = <<>>
    /\ gitName = <<>>
    /\ gitNameAgain = <<>>
    /\ nameStep = 0


\* No watcher under test, no event delivered.
WatchIdle ==
    /\ fsEvents = <<>>
    /\ modifiedFiles = <<>>
    /\ watchPc = "idle"

\* No runCommand under test.
RunIdle ==
    /\ child = [state |-> "none", code |-> 0]
    /\ pipes = [s \in {"stdout", "stderr"} |-> <<>>]
    /\ arrived = <<>>
    /\ outputSoFar = <<>>
    /\ promise = [state |-> "none"]

\* getPackageXML has not been called.
ManifestIdle ==
    /\ mpc = "idle"
    /\ mFile = <<>>
    /\ mBranch = <<>>
    /\ mFiles = <<>>
    /\ mAddIdx = 0
    /\ mProcs = {}
    /\ mWatcher = FALSE
    /\ mTrace = <<>>
    /\ prTitle = <<>>
    /\ prDescription = <<>>

\* init is not under test: the configuration of the session is in config.
StartupIdle ==
    /\ loadedConfig = <<>>
    /\ mergedConfig = <<>>
    /\ initPc = "idle"

\* Nothing was logged.
LogIdle ==
    /\ logCalls = <<>>
    /\ pendingAppends = {}
    /\ logFile = <<>>

\* copyPackageIntoProjectFolder was not called.
CopyIdle ==
    /\ copySource = [name |-> "", isDir |-> FALSE, children |-> <<>>]
    /\ copyDisk = [dirs |-> {}, fresh |-> {}, stale |-> {}]
    /\ copyCalls = 0
    /\ copyThrown = "none"

\* fetchChangeSets was not called with a list of its own.
FetchIdle ==
    /\ fNames = <<>>
    /\ fCopy = FALSE
    /\ fFolders = [l \in Labels |-> "none"]
    /\ fpc = "idle"
    /\ fIssued = <<>>
    /\ fModified = <<>>
    /\ fWatchers = 0
    /\ fReturned = <<>>

\* configWizard was not invoked.
WizardIdle ==
    /\ wpc = "idle"
    /\ wTrace = <<>>
    /\ wCwd = 0
    /\ wDisk = [project |-> FALSE, git |-> FALSE, sfdx |-> FALSE, token |-> FALSE]
    /\ wRuns = 0

\* Neither navigateToProjectDir nor connectToRepo is under test.
NavIdle ==
    /\ navDirs = {}
    /\ navGit = FALSE
    /\ navStart = <<>>
    /\ navCwd = <<>>
    /\ navUps = 0
    /\ navPc = "idle"

\* maskString is not under test.
MaskIdle ==
    /\ maskInput = <<>>
    /\ maskPercent = 80
    /\ maskOutput = <<>>
    /\ maskPc = "idle"

SecretIdle ==
    /\ secToken = <<>>
    /\ secUrl = <<>>
    /\ secLog = <<>>
    /\ secPc = "idle"

ExitIdle ==
    /\ exitCause = "none"
    /\ exitStatus = -1

CompIdle == WatchIdle /\ RunIdle /\ ManifestIdle /\ StartupIdle /\ LogIdle /\ CopyIdle /\ FetchIdle /\ WizardIdle /\ NavIdle /\ MaskIdle /\ SecretIdle /\ ExitIdle
Init ==
    /\ config \in [skipExistingChangeSets : BOOLEAN,
                   autoCreatePullRequest : {FALSE},
                   autofillPullRequestDetails : {TRUE}]
    /\ batch \in SeqsUpTo(Labels, MaxUnits) \ {<<>>}
    /\ idx = 0
    /\ bpc = "idle"
    /\ downloadedFiles = <<>>
    /\ returnedFiles = <<>>
    /\ addIdx = 0
    /\ procs = {}
    /\ watchers = {}
    /\ trace = <<>>
    /\ unitFailed = FALSE
    /\ folders \in [Labels -> {"none", "desc"}]
    /\ gitBranches \in {{Main}, {Main} \cup {convertPackgeNameToGitName(l) : l \in Labels}}
    /\ gitHead = Main
    /\ menuPrompts = 1
    /\ confirmPrompts = 0
    /\ branchExists = [t |-> "undefined"]
    /\ hostExited = FALSE
    /\ NameIdle
    /\ CompIdle

Next ==
    \/ MenuShowRemote
    \/ MenuCommandExit
    \/ MenuChangeSets
    \/ ConfirmYes
    \/ BranchQueryExit
    \/ BranchExit
    \/ RetrieveExit
    \/ AddExit
    \/ CommitExit
    \/ PushExit

Spec == Init /\ [][Next]_vars

\* The same session where the file system also reports events to a watcher
\* that was left open.
NextLate == Next \/ LateWatcherEvent

SpecLate == Init /\ [][NextLate]_vars

----------------------------------------------------------------------------
(* The name derivation on its own: labels of every shape up to MaxLen *)

\* No batch was started.
BatchIdle ==
    /\ batch = <<>>
    /\ idx = 0
    /\ bpc = "idle"
    /\ downloadedFiles = <<>>
    /\ returnedFiles = <<>>
    /\ addIdx = 0
    /\ procs = {}
    /\ watchers = {}
    /\ trace = <<>>
    /\ unitFailed = FALSE
    /\ folders = [l \in Labels |-> "none"]
    /\ gitBranches = {Main}
    /\ gitHead = Main
    /\ menuPrompts = 1
    /\ confirmPrompts = 0
    /\ branchExists = [t |-> "undefined"]
    /\ hostExited = FALSE

FlowIdle ==
    /\ config = [skipExistingChangeSets |-> TRUE, autoCreatePullRequest |-> FALSE,
                 autofillPullRequestDetails |-> TRUE]
    /\ BatchIdle

InitName ==
    /\ FlowIdle
    /\ CompIdle
    /\ packageName \in StringsUpTo(MaxLen)
    /\ gitName = <<>>
    /\ gitNameAgain = <<>>
    /\ nameStep = 0

\* branchName = convertPackgeNameToGitName(packageName)
Derive ==
    /\ nameStep = 0
    /\ gitName' = convertPackgeNameToGitName(packageName)
    /\ nameStep' = 1
    /\ UNCHANGED <<packageName, gitNameAgain, flowVars, compVars>>

\* the derivation applied to a name that is already derived
DeriveAgain ==
    /\ nameStep = 1
    /\ gitNameAgain' = convertPackgeNameToGitName(gitName)
    /\ nameStep' = 2
    /\ UNCHANGED <<packageName, gitName, flowVars, compVars>>

NextName == Derive \/ DeriveAgain

SpecName == InitName /\ [][NextName]_vars

----------------------------------------------------------------------------
(* The watcher of one retrieval: fs.watch('./', {recursive: true}, callback) *)

\* fs.watch reports 'rename' for a created file and 'change' for a modified one.
EventTypes == {"rename", "change"}
FsEvent(eventType, filename) == [eventType |-> eventType, filename |-> filename]
FsEvents == {FsEvent(t, f) : t \in EventTypes, f \in Files}

InitWatch ==
    /\ FlowIdle
    /\ NameIdle
    /\ ExitIdle
    /\ SecretIdle
    /\ MaskIdle
    /\ NavIdle
    /\ WizardIdle
    /\ FetchIdle
    /\ CopyIdle
    /\ fsEvents = <<>>
    /\ modifiedFiles = <<>>
    /\ watchPc = "watching"
    /\ RunIdle
    /\ ManifestIdle
    /\ StartupIdle
    /\ LogIdle

\* one call of the callback by the runtime
WatchCallback ==
    /\ watchPc = "watching"
    /\ Len(fsEvents) < MaxWatched
    /\ \E e \in FsEvents :
          /\ fsEvents' = Append(fsEvents, e)
          /\ modifiedFiles' = watcherPush(modifiedFiles, e.filename)
    /\ UNCHANGED <<watchPc, exceptWatch>>

\* the awaited retrieval has exited: modifiedFiles = [...new Set(modifiedFiles)]
WatchReturn ==
    /\ watchPc = "watching"
    /\ modifiedFiles' = removeDuplicates(modifiedFiles)
    /\ watchPc' = "returned"
    /\ UNCHANGED <<fsEvents, exceptWatch>>

NextWatch == WatchCallback \/ WatchReturn

SpecWatch == InitWatch /\ [][NextWatch]_vars

----------------------------------------------------------------------------
(* runCommand: spawn, the 'data' listeners of both streams, the 'exit' listener *)

Streams == {"stdout", "stderr"}
Chunks == { <<"o","k">>, <<"!">> }

\* let returnObject = {'exit_code': code, 'output': output}
returnObjectZero(code, text) == [exit_code |-> 0, output |-> text]
returnObject(code, text) == [exit_code |-> code, output |-> text]

\* the state after runCommand has returned: the process is spawned, the
\* listeners are attached, the promise is pending
InitRun ==
    /\ FlowIdle
    /\ NameIdle
    /\ ExitIdle
    /\ SecretIdle
    /\ MaskIdle
    /\ NavIdle
    /\ WizardIdle
    /\ FetchIdle
    /\ CopyIdle
    /\ WatchIdle
    /\ ManifestIdle
    /\ StartupIdle
    /\ LogIdle
    /\ child = [state |-> "running", code |-> 0]
    /\ pipes = [s \in Streams |-> <<>>]
    /\ arrived = <<>>
    /\ outputSoFar = <<>>
    /\ promise = [state |-> "pending"]

\* the process writes a chunk to one of its streams
ChildWrite ==
    /\ child.state = "running"
    /\ Len(pipes["stdout"]) + Len(pipes["stderr"]) + Len(arrived) < MaxChunks
    /\ \E s \in Streams, x \in Chunks : pipes' = [pipes EXCEPT ![s] = Append(@, x)]
    /\ UNCHANGED <<child, arrived, outputSoFar, promise, exceptRun>>

\* the process terminates; what it wrote may still be in the pipes
ChildEnd ==
    /\ child.state = "running"
    /\ \E code \in {0, 1} : child' = [state |-> "ended", code |-> code]
    /\ UNCHANGED <<pipes, arrived, outputSoFar, promise, exceptRun>>

\* p.stdout.on("data", ...) / p.stderr.on("data", ...): output += x
DataEvent ==
    /\ \E s \in Streams :
          /\ pipes[s] # <<>>
          /\ outputSoFar' = outputSoFar \o Head(pipes[s])
          /\ arrived' = Append(arrived, Head(pipes[s]))
          /\ pipes' = [pipes EXCEPT ![s] = Tail(@)]
    /\ UNCHANGED <<child, promise, exceptRun>>

\* p.on("exit", ...): emitted once when the process has ended, whether or not
\* its streams are drained; resolveFunc(returnObject)
ExitEvent ==
    /\ child.state = "ended"
    /\ child' = [child EXCEPT !.state = "exited"]
    /\ promise' = IF promise.state = "pending"
                  THEN [state |-> "fulfilled", value |-> returnObject(child.code, outputSoFar)]
                  ELSE promise
    /\ UNCHANGED <<pipes, arrived, outputSoFar, exceptRun>>

NextRun == ChildWrite \/ ChildEnd \/ DataEvent \/ ExitEvent

SpecRun == InitRun /\ [][NextRun]_vars

----------------------------------------------------------------------------
(* getPackageXML, submitGithubPullRequest and makeGithubPR, one segment per await *)

ManifestFile == <<"p",".","x","m","l">>
\* What can be typed at the prompt for the file: its path, another path, nothing.
FileInputs == { ManifestFile, <<"q">>, <<>> }

\* fs.existsSync(packageFileLocation): ManifestFile is the file that is there
packageFileExistsAlways(packageFileLocation) == TRUE
packageFileExists(packageFileLocation) == packageFileLocation = ManifestFile
BranchInputs == { <<"f","1">>, <<"a"," ","b">> }
TextInputs == { <<>>, <<"t">> }
PullRequestUrl == <<"h","t","t","p","s",":">>

\* What 'gh pr create' can have written by the time it exits with 0: the URL
\* alone, the URL inside other text, text without a URL, nothing.
PrOutputs ==
    { PullRequestUrl \o <<"x">>,
      <<"o", "k", " ">> \o PullRequestUrl \o <<"x", " ">>,
      <<"n", "o", " ", "u", "r", "l">>,
      <<>> }

\* String.prototype.indexOf: the 0-based position of the first occurrence, or -1
indexOf(s, searchString) ==
    LET hits == {i \in 0..(Len(s) - Len(searchString)) :
                    SubSeq(s, i + 1, i + Len(searchString)) = searchString}
    IN  IF hits = {} THEN -1 ELSE CHOOSE i \in hits : \A j \in hits : i <= j

\* s.substring(start, undefined): a negative start counts as 0, a start beyond
\* the end as the length, and an undefined end as the length
substringFrom(s, start) ==
    LET from == IF start < 0 THEN 0 ELSE IF start > Len(s) THEN Len(s) ELSE start
    IN  SubSeq(s, from + 1, Len(s))

\* String.prototype.trim
RECURSIVE trim(_)
trim(s) ==
    IF s = <<>> THEN s
    ELSE IF s[1] \in Whitespace THEN trim(Tail(s))
    ELSE IF s[Len(s)] \in Whitespace THEN trim(SubSeq(s, 1, Len(s) - 1))
    ELSE s

\* resultOutput.substring(resultOutput.indexOf('https:'),resultOutput.size).trim()
extractUrl(resultOutput) ==
    trim(substringFrom(resultOutput, indexOf(resultOutput, PullRequestUrl)))

retrieveSource(packageFileLocation) == Cmd("retrieve-x", packageFileLocation)
browserOpen(url) == Cmd("open", url)

\* ToBoolean of a string
TruthyString(s) == s # <<>>

\* makeGithubPR: 'gh pr create -H <branch>' followed by ' --fill' or by
\* ' --title "<title>" --body "<description>'
makeGithubPRBothMissing(branchName, title, description) ==
    [kind |-> "pr", arg |-> branchName,
     flags |-> IF ~TruthyString(title) /\ ~TruthyString(description)
               THEN {"--fill"} ELSE {"--title", "--body"},
     title |-> title, body |-> description]
makeGithubPR(branchName, title, description) ==
    [kind |-> "pr", arg |-> branchName,
     flags |-> IF ~TruthyString(title) \/ ~TruthyString(description)
                  \/ title = <<>> \/ description = <<>>
               THEN {"--fill"} ELSE {"--title", "--body"},
     title |-> title, body |-> description]

\* if(config.autoCreatePullRequest)
submitAlways(cfg) == TRUE
submitPullRequest(cfg) == cfg.autoCreatePullRequest

MSpawn(cmd) == [ev |-> "spawn", what |-> cmd]
MExit(cmd) == [ev |-> "exit", what |-> cmd]
MPrompt(query) == [ev |-> "prompt", what |-> Cmd(query, <<>>)]
MLog(tag) == [ev |-> "log", what |-> Cmd(tag, <<>>)]

MAwaited(kind) == {c \in mProcs : c.kind = kind}

InitManifest ==
    /\ config \in [skipExistingChangeSets : {TRUE},
                   autoCreatePullRequest : BOOLEAN,
                   autofillPullRequestDetails : BOOLEAN]
    /\ BatchIdle
    /\ NameIdle
    /\ ExitIdle
    /\ SecretIdle
    /\ MaskIdle
    /\ NavIdle
    /\ WizardIdle
    /\ FetchIdle
    /\ CopyIdle
    /\ WatchIdle
    /\ RunIdle
    /\ StartupIdle
    /\ LogIdle
    /\ mpc = "askFile"
    /\ mFile = <<>>
    /\ mBranch = <<>>
    /\ mFiles = <<>>
    /\ mAddIdx = 0
    /\ mProcs = {}
    /\ mWatcher = FALSE
    /\ mTrace = <<MPrompt("file")>>
    /\ prTitle = <<>>
    /\ prDescription = <<>>

\* Lines 360-366 from position k of the staging loop: the next 'git add', or
\* past the loop the prompt for the commit description.
ManifestStaging(files, k, ps, tr) ==
    IF k <= Len(files)
    THEN /\ mpc' = "add"
         /\ mAddIdx' = k
         /\ mProcs' = ps \cup {gitAdd(files[k])}
         /\ mTrace' = tr \o <<MLog("adding"), MSpawn(gitAdd(files[k]))>>
    ELSE /\ mpc' = "askCommit"
         /\ mAddIdx' = k
         /\ mProcs' = ps
         /\ mTrace' = Append(tr, MPrompt("commit"))

\* the answer to 'Please enter the location/name of your package.xml file'
ManifestFileAnswer ==
    /\ mpc = "askFile"
    /\ \E packageFileLocation \in FileInputs :
          /\ mFile' = packageFileLocation
          /\ IF ~packageFileExists(packageFileLocation)
             THEN /\ mpc' = "done"
                  /\ mTrace' = Append(mTrace, MLog("notfound"))
             ELSE /\ mpc' = "askBranch"
                  /\ mTrace' = Append(mTrace, MPrompt("branch"))
    /\ UNCHANGED <<mBranch, mFiles, mAddIdx, mProcs, mWatcher, prTitle, prDescription,
                   exceptManifest>>

\* the answer to 'Enter the name for your Git branch': validateGitBranchName
\* returns true, createGitBranch, changeToGitBranch up to its runCommand
ManifestBranchAnswer ==
    /\ mpc = "askBranch"
    /\ \E branchName \in BranchInputs :
          LET cmds == createGitBranch(branchName)
              next == IF Len(cmds) > 1 THEN cmds[2] ELSE changeToGitBranch(branchName)
          IN  /\ mBranch' = branchName
              /\ mpc' = IF Len(cmds) > 1 THEN "create" ELSE "checkout"
              /\ mProcs' = mProcs \cup {cmds[1], next}
              /\ mTrace' = mTrace \o <<MSpawn(cmds[1]), MSpawn(next)>>
    /\ UNCHANGED <<mFile, mFiles, mAddIdx, mWatcher, prTitle, prDescription, exceptManifest>>

\* the exit of the un-awaited 'git branch -l'
ManifestQueryExit ==
    /\ \E c \in MAwaited("branch-l") : mProcs' = mProcs \ {c}
    /\ UNCHANGED <<mFile, mpc, mBranch, mFiles, mAddIdx, mWatcher, mTrace, prTitle, prDescription,
                   exceptManifest>>

\* the exit of 'git branch <name> -f' or of 'git checkout -b <name>'; after
\* the checkout the watcher is started and the retrieval spawned (lines 347-353)
ManifestBranchExit ==
    /\ mpc \in {"create", "checkout"}
    /\ \E c \in MAwaited(IF mpc = "create" THEN "branch-f" ELSE "checkout-b") :
          IF mpc = "create"
          THEN /\ mpc' = "checkout"
               /\ mProcs' = (mProcs \ {c}) \cup {changeToGitBranch(mBranch)}
               /\ mTrace' = mTrace \o <<MExit(c), MSpawn(changeToGitBranch(mBranch))>>
               /\ UNCHANGED mWatcher
          ELSE /\ mpc' = "retrieve"
               /\ mWatcher' = TRUE
               /\ mProcs' = (mProcs \ {c}) \cup {retrieveSource(mFile)}
               /\ mTrace' = mTrace \o <<MExit(c), MLog("watch"), MLog("fetching"),
                                        MSpawn(retrieveSource(mFile))>>
    /\ UNCHANGED <<mFile, mBranch, mFiles, mAddIdx, prTitle, prDescription, exceptManifest>>

\* the exit of the retrieval: duplicates removed, watcher closed, staging
ManifestRetrieveExit ==
    /\ mpc = "retrieve"
    /\ \E c \in MAwaited("retrieve-x") :
       \E files \in {removeDuplicates(watcherCallback(events)) :
                        events \in SeqsUpTo(Files, MaxEvents)} :
          /\ mFiles' = files
          /\ mWatcher' = FALSE
          /\ ManifestStaging(files, 1, mProcs \ {c},
                             mTrace \o <<MExit(c), MLog("close"), MLog("staging")>>)
    /\ UNCHANGED <<mFile, mBranch, prTitle, prDescription, exceptManifest>>

\* the exit of a 'git add'
ManifestAddExit ==
    /\ mpc = "add"
    /\ \E c \in MAwaited("add") :
          ManifestStaging(mFiles, mAddIdx + 1, mProcs \ {c}, Append(mTrace, MExit(c)))
    /\ UNCHANGED <<mFile, mBranch, mFiles, mWatcher, prTitle, prDescription, exceptManifest>>

\* the answer to 'Please enter a commit description': gitCommit
ManifestCommitAnswer ==
    /\ mpc = "askCommit"
    /\ \E commitMessage \in TextInputs :
          /\ mpc' = "commit"
          /\ mProcs' = mProcs \cup {gitCommit(commitMessage)}
          /\ mTrace' = Append(mTrace, MSpawn(gitCommit(commitMessage)))
    /\ UNCHANGED <<mFile, mBranch, mFiles, mAddIdx, mWatcher, prTitle, prDescription, exceptManifest>>

\* the exit of 'git commit': pushBranchToRemote
ManifestCommitExit ==
    /\ mpc = "commit"
    /\ \E c \in MAwaited("commit") :
          /\ mpc' = "push"
          /\ mProcs' = (mProcs \ {c}) \cup {pushBranchToRemote(mBranch)}
          /\ mTrace' = mTrace \o <<MExit(c), MSpawn(pushBranchToRemote(mBranch))>>
    /\ UNCHANGED <<mFile, mBranch, mFiles, mAddIdx, mWatcher, prTitle, prDescription, exceptManifest>>

\* the exit of 'git push': lines 372-374, then submitGithubPullRequest up to
\* its first prompt or, with autofillPullRequestDetails, up to the runCommand
\* of makeGithubPR
ManifestPushExit ==
    /\ mpc = "push"
    /\ \E c \in MAwaited("push") :
          LET ps == mProcs \ {c}
              tr == Append(mTrace, MExit(c))
              pr == makeGithubPR(mBranch, <<>>, <<>>)
          IN  IF ~submitPullRequest(config)
              THEN /\ mpc' = "done"
                   /\ mProcs' = ps
                   /\ mTrace' = tr
              ELSE IF ~config.autofillPullRequestDetails
                   THEN /\ mpc' = "askTitle"
                        /\ mProcs' = ps
                        /\ mTrace' = Append(tr, MPrompt("title"))
                   ELSE /\ mpc' = "pr"
                        /\ mProcs' = ps \cup {pr}
                        /\ mTrace' = Append(tr, MSpawn(pr))
    /\ UNCHANGED <<mFile, mBranch, mFiles, mAddIdx, mWatcher, prTitle, prDescription, exceptManifest>>

\* the answer to 'Please title for pull request'
ManifestTitleAnswer ==
    /\ mpc = "askTitle"
    /\ prTitle' \in TextInputs
    /\ mpc' = "askDescription"
    /\ mTrace' = Append(mTrace, MPrompt("description"))
    /\ UNCHANGED <<mFile, mBranch, mFiles, mAddIdx, mProcs, mWatcher, prDescription, exceptManifest>>

\* the answer to 'Please description for pull request': makeGithubPR
ManifestDescriptionAnswer ==
    /\ mpc = "askDescription"
    /\ \E description \in TextInputs :
          LET pr == makeGithubPR(mBranch, prTitle, description)
          IN  /\ prDescription' = description
              /\ mpc' = "pr"
              /\ mProcs' = mProcs \cup {pr}
              /\ mTrace' = Append(mTrace, MSpawn(pr))
    /\ UNCHANGED <<mFile, mBranch, mFiles, mAddIdx, mWatcher, prTitle, exceptManifest>>

\* the exit of 'gh pr create': with exit code 0 the browser is opened
ManifestPRExit ==
    /\ mpc = "pr"
    /\ \E c \in MAwaited("pr"), code \in {0, 1}, output \in PrOutputs :
          IF code = 0
          THEN /\ mpc' = "open"
               /\ mProcs' = (mProcs \ {c}) \cup {browserOpen(extractUrl(output))}
               /\ mTrace' = mTrace \o <<MExit(c), MLog("completed"),
                                        MSpawn(browserOpen(extractUrl(output)))>>
          ELSE /\ mpc' = "done"
               /\ mProcs' = mProcs \ {c}
               /\ mTrace' = Append(mTrace, MExit(c))
    /\ UNCHANGED <<mFile, mBranch, mFiles, mAddIdx, mWatcher, prTitle, prDescription, exceptManifest>>

\* the exit of the command that opens the browser
ManifestOpenExit ==
    /\ mpc = "open"
    /\ \E c \in MAwaited("open") :
          /\ mpc' = "done"
          /\ mProcs' = mProcs \ {c}
          /\ mTrace' = Append(mTrace, MExit(c))
    /\ UNCHANGED <<mFile, mBranch, mFiles, mAddIdx, mWatcher, prTitle, prDescription, exceptManifest>>

NextManifest ==
    \/ ManifestFileAnswer
    \/ ManifestBranchAnswer
    \/ ManifestQueryExit
    \/ ManifestBranchExit
    \/ ManifestRetrieveExit
    \/ ManifestAddExit
    \/ ManifestCommitAnswer
    \/ ManifestCommitExit
    \/ ManifestPushExit
    \/ ManifestTitleAnswer
    \/ ManifestDescriptionAnswer
    \/ ManifestPRExit
    \/ ManifestOpenExit

SpecManifest == InitManifest /\ [][NextManifest]_vars

----------------------------------------------------------------------------
(* init, the default configuration and checkConfigsValid *)

Str(s) == [t |-> "string", v |-> s]
Bool(b) == [t |-> "boolean", v |-> b]
Absent == [t |-> "undefined"]

ConfigKeys == {"skipExistingChangeSets", "changesetJSONFile", "autoCreatePullRequest",
               "autofillPullRequestDetails", "gitUsername", "projectName"}

\* let config = { ... } (lines 33-38); a key the object does not have reads
\* as undefined
DefaultConfig ==
    [k \in ConfigKeys |->
       CASE k = "skipExistingChangeSets" -> Bool(TRUE)
         [] k = "changesetJSONFile" -> Str(<<"c",".","j","s","o","n">>)
         [] k = "autoCreatePullRequest" -> Bool(FALSE)
         [] k = "autofillPullRequestDetails" -> Bool(TRUE)
         [] OTHER -> Absent]

\* the contents config.json can have
ConfigFiles ==
    {[k \in ConfigKeys |->
        CASE k = "gitUsername" -> user
          [] k = "projectName" -> project
          [] k = "autoCreatePullRequest" -> pr
          [] k = "autofillPullRequestDetails" -> fill
          [] k = "skipExistingChangeSets" -> skip
          [] OTHER -> Absent] :
       user \in {Absent, Str(<<>>), Str(<<"u">>), Str(<<"u","@","h">>)},
       project \in {Str(<<>>), Str(<<"p">>)},
       pr \in {Absent, Bool(TRUE), Bool(FALSE)},
       fill \in {Absent, Bool(FALSE)},
       skip \in {Absent, Bool(FALSE)}}

\* { ...config, ...loadedConfig }
mergeConfig(defaults, loaded) ==
    [k \in ConfigKeys |-> IF loaded[k] # Absent THEN loaded[k] ELSE defaults[k]]

\* x == "" : a boolean or a number is compared by ToNumber, and ToNumber("") is 0
LooseEqualsEmptyString(v) ==
    CASE v.t = "string" -> v.v = <<>>
      [] v.t = "boolean" -> v.v = FALSE
      [] v.t = "number" -> v.v = 0
      [] OTHER -> FALSE

HasAt(s) == \E i \in 1..Len(s) : s[i] = "@"

\* checkConfigsValid; reading indexOf of a missing gitUsername throws
checkConfigsValid(configObject) ==
    IF configObject["gitUsername"].t # "string"
    THEN [thrown |-> TRUE, valid |-> FALSE]
    ELSE [thrown |-> FALSE,
          valid |-> /\ ~HasAt(configObject["gitUsername"].v)
                    /\ \A property \in {k \in ConfigKeys : configObject[k] # Absent} :
                          ~LooseEqualsEmptyString(configObject[property])]

InitStartup ==
    /\ FlowIdle
    /\ NameIdle
    /\ ExitIdle
    /\ SecretIdle
    /\ MaskIdle
    /\ NavIdle
    /\ WizardIdle
    /\ FetchIdle
    /\ CopyIdle
    /\ WatchIdle
    /\ RunIdle
    /\ ManifestIdle
    /\ LogIdle
    /\ loadedConfig \in ConfigFiles
    /\ mergedConfig = DefaultConfig
    /\ initPc = "start"

\* init: it has no await, so it runs to displayMenu or to its throw in one go
init ==
    /\ initPc = "start"
    /\ LET merged == mergeConfig(DefaultConfig, loadedConfig)
           configsValidResponse == checkConfigsValid(merged)
       IN  /\ mergedConfig' = merged
           /\ initPc' = IF configsValidResponse.thrown \/ ~configsValidResponse.valid
                        THEN "aborted" ELSE "menu"
    /\ UNCHANGED <<loadedConfig, exceptInit>>

NextStartup == init

SpecStartup == InitStartup /\ [][NextStartup]_vars

----------------------------------------------------------------------------
(* log: every call starts an fs.appendFile on log.txt and does not wait for it *)

LogItems == { <<"a">>, <<"b">> }

InitLog ==
    /\ FlowIdle
    /\ NameIdle
    /\ ExitIdle
    /\ SecretIdle
    /\ MaskIdle
    /\ NavIdle
    /\ WizardIdle
    /\ FetchIdle
    /\ CopyIdle
    /\ WatchIdle
    /\ RunIdle
    /\ ManifestIdle
    /\ StartupIdle
    /\ LogIdle

\* log(logItem, ...): fs.appendFile("log.txt", logItem + "\r\n", callback)
log ==
    /\ Len(logCalls) < MaxLogCalls
    /\ \E logItem \in LogItems : logCalls' = Append(logCalls, logItem)
    /\ pendingAppends' = pendingAppends \cup {Len(logCalls) + 1}
    /\ UNCHANGED <<logFile, exceptLog>>

\* the thread pool completes one of the appends that are under way; appends
\* started by different calls are not ordered among themselves
AppendComplete ==
    /\ \E n \in pendingAppends :
          /\ logFile' = Append(logFile, n)
          /\ pendingAppends' = pendingAppends \ {n}
    /\ UNCHANGED <<logCalls, exceptLog>>

NextLog == log \/ AppendComplete

SpecLog == InitLog /\ [][NextLog]_vars

----------------------------------------------------------------------------
(* copyPackageIntoProjectFolder: copy a retrieved change set into the project *)

\* How many entries a directory of the retrieved change set has at most.
MaxEntries == 2

PackageFolder == "pkg"
FileNames == { "package.xml", "A.cls" }
DirNames == { "classes" }
\* The file names the watcher callback keeps: those ending in .xml
XmlFileNames == { "package.xml" }

\* A path is the sequence of names below its root.
Target == <<"default">>

NoFolder == [name |-> "", isDir |-> FALSE, children |-> <<>>]
FileNode(n) == [name |-> n, isDir |-> FALSE, children |-> <<>>]
DistinctNames(s) == \A i, j \in 1..Len(s) : i # j => s[i].name # s[j].name
FileNodes == { FileNode(n) : n \in FileNames }
FileLists == { s \in SeqsUpTo(FileNodes, MaxEntries) : DistinctNames(s) }
SubFolders ==
    { [name |-> d, isDir |-> TRUE, children |-> s] : d \in DirNames, s \in FileLists }
\* What a retrieval can have left in downloadedPackagesFolder\<packageName>.
PackageTrees ==
    { [name |-> PackageFolder, isDir |-> TRUE, children |-> s] :
        s \in { t \in SeqsUpTo(FileNodes \cup SubFolders, MaxEntries) : DistinctNames(t) } }

\* fs.existsSync(path)
existsSync(disk, path) == path \in disk.dirs \cup disk.fresh \cup disk.stale

\* fs.mkdirSync(path) without the recursive option: the parent has to be a directory
mkdirSync(st, path) ==
    IF SubSeq(path, 1, Len(path) - 1) \in st.disk.dirs
    THEN [st EXCEPT !.disk.dirs = @ \cup {path}]
    ELSE [st EXCEPT !.thrown = "ENOENT"]

\* copyFileSync( curSource, targetFolder ): the identifier is bound nowhere in the
\* program, so evaluating the call throws a ReferenceError and nothing is written
copyFileSync(st, curSource, targetFolder) == [st EXCEPT !.thrown = "ReferenceError"]

RECURSIVE copyFolderRecursiveSync(_, _, _)
RECURSIVE forEachFile(_, _, _, _)
\* files.forEach( function ( file ) { ... } ) from entry i on; an exception ends it
forEachFile(files, i, targetFolder, st) ==
    IF i > Len(files) \/ st.thrown # "none"
    THEN st
    ELSE forEachFile(files, i + 1, targetFolder,
             IF files[i].isDir
             THEN copyFolderRecursiveSync(files[i], targetFolder, st)
             ELSE copyFileSync(st, files[i], targetFolder))

\* copyFolderRecursiveSync( source, target )
copyFolderRecursiveSync(source, target, st) ==
    LET targetFolder == Append(target, source.name)
        made == IF ~existsSync(st.disk, targetFolder)
                THEN mkdirSync(st, targetFolder)
                ELSE st
    IN  IF made.thrown # "none"
        THEN made
        ELSE IF source = NoFolder
        THEN [made EXCEPT !.thrown = "ENOENT"]   \* fs.lstatSync( source )
        ELSE IF source.isDir
        THEN forEachFile(source.children, 1, targetFolder, made)
        ELSE made

\* copyPackageIntoProjectFolder(packageName)
copyPackageIntoProjectFolder(source, disk) ==
    copyFolderRecursiveSync(
        IF source = NoFolder THEN [NoFolder EXCEPT !.name = PackageFolder] ELSE source,
        Target, [disk |-> disk, thrown |-> "none"])

\* The project folder before the copy: as sfdx force:project:create left it, or
\* with what an earlier run put there.
ProjectDisks ==
    { [dirs |-> {Target}, fresh |-> {}, stale |-> {}],
      [dirs |-> {Target, <<"default", "pkg">>}, fresh |-> {},
       stale |-> {<<"default", "pkg", "package.xml">>}],
      [dirs |-> {Target, <<"default", "classes">>}, fresh |-> {},
       stale |-> {<<"default", "package.xml">>, <<"default", "classes", "A.cls">>}] }

InitCopy ==
    /\ FlowIdle
    /\ NameIdle
    /\ ExitIdle
    /\ SecretIdle
    /\ MaskIdle
    /\ NavIdle
    /\ WizardIdle
    /\ FetchIdle
    /\ WatchIdle
    /\ RunIdle
    /\ ManifestIdle
    /\ StartupIdle
    /\ LogIdle
    /\ copySource \in PackageTrees \cup {NoFolder}
    /\ copyDisk \in ProjectDisks
    /\ copyCalls = 0
    /\ copyThrown = "none"

\* One call of copyPackageIntoProjectFolder; the caller may call it again.
CopyPackage ==
    /\ copyCalls < 2
    /\ LET st == copyPackageIntoProjectFolder(copySource, copyDisk)
       IN  /\ copyDisk' = st.disk
           /\ copyThrown' = st.thrown
    /\ copyCalls' = copyCalls + 1
    /\ UNCHANGED <<copySource, exceptCopy>>

NextCopy == CopyPackage

SpecCopy == InitCopy /\ [][NextCopy]_vars

----------------------------------------------------------------------------
(* fetchChangeSets with a list of names and with copyToProjectFolder *)

\* How many names the list changeSetNames has at most.
MaxNames == 2

\* A retrieval that succeeded has written package.xml into the folder.
RetrievedTrees ==
    { t \in PackageTrees : \E i \in 1..Len(t.children) : t.children[i] = FileNode("package.xml") }

\* A retrieval that failed may have created the folder and nothing in it.
EmptyFolder == [name |-> PackageFolder, isDir |-> TRUE, children |-> <<>>]

\* What downloadedPackagesFolder\<changeSetName> holds after the retrieval
\* exited with code, given what was there before.
FolderAfter(before, code) ==
    IF code = 0 \/ before # "none" THEN RetrievedTrees ELSE {NoFolder, EmptyFolder}

\* The for-loop of fetchChangeSets from position k up to its first await or
\* return: names whose folder exists are skipped when the configuration says so.
RECURSIVE FetchLoop(_)
FetchLoop(k) ==
    IF k > Len(fNames)
    THEN /\ fpc' = "returned"
         /\ fReturned' = <<>>
         /\ UNCHANGED <<fIssued, fModified, fWatchers>>
    ELSE IF skipDownload(fFolders, fNames[k])
    THEN FetchLoop(k + 1)
    ELSE /\ fpc' = "retrieve"
         /\ fModified' = <<>>
         /\ fWatchers' = fWatchers + 1
         /\ fIssued' = Append(fIssued, fNames[k])
         /\ UNCHANGED fReturned

InitFetch ==
    /\ config \in { [skipExistingChangeSets |-> s, autoCreatePullRequest |-> FALSE,
                     autofillPullRequestDetails |-> TRUE] : s \in BOOLEAN }
    /\ BatchIdle
    /\ NameIdle
    /\ ExitIdle
    /\ SecretIdle
    /\ MaskIdle
    /\ NavIdle
    /\ WizardIdle
    /\ WatchIdle
    /\ RunIdle
    /\ ManifestIdle
    /\ StartupIdle
    /\ LogIdle
    /\ CopyIdle
    /\ fNames \in SeqsUpTo(Labels, MaxNames)
    /\ fCopy \in BOOLEAN
    /\ fFolders \in [Labels -> {"none", "desc"}]
    /\ fpc = "idle"
    /\ fIssued = <<>>
    /\ fModified = <<>>
    /\ fWatchers = 0
    /\ fReturned = <<>>

\* fetchChangeSets(changeSetNames, copyToProjectFolder) up to its first await
FetchCall ==
    /\ fpc = "idle"
    /\ FetchLoop(1)
    /\ UNCHANGED <<fNames, fCopy, fFolders, flowVars, nameVars, exceptFetch>>

\* The watcher callback during the retrieval.
FetchWatcherEvent ==
    /\ fpc = "retrieve"
    /\ Len(fModified) < MaxEvents
    /\ \E filename \in Files : fModified' = watcherPush(fModified, filename)
    /\ UNCHANGED <<fNames, fCopy, fFolders, fpc, fIssued, fWatchers, fReturned,
                   flowVars, nameVars, exceptFetch>>

\* The retrieval exits: lines 487-502. Without copyToProjectFolder the return
\* comes before watcher.close(). With it the array is emptied, the copy runs
\* to its end without the event loop being entered, so no watcher callback
\* runs before watcher.close(); an exception of the copy rejects the promise
\* of fetchChangeSets before watcher.close() is reached.
FetchRetrieveExit ==
    /\ fpc = "retrieve"
    /\ \E code \in {0, 1} :
        LET changeSetName == fIssued[Len(fIssued)]
        IN  /\ fFolders' = [fFolders EXCEPT
                   ![changeSetName] = IF code = 0 THEN "desc" ELSE @]
            /\ IF ~fCopy
               THEN /\ fModified' = removeDuplicates(fModified)
                    /\ fReturned' = removeDuplicates(fModified)
                    /\ fpc' = "returned"
                    /\ UNCHANGED <<fWatchers, copyVars>>
               ELSE \E tree \in FolderAfter(fFolders[changeSetName], code) :
                      LET st == copyPackageIntoProjectFolder(tree,
                                    [dirs |-> {Target}, fresh |-> {}, stale |-> {}])
                      IN  /\ copySource' = tree
                          /\ copyDisk' = st.disk
                          /\ copyThrown' = st.thrown
                          /\ copyCalls' = copyCalls + 1
                          /\ fModified' = <<>>
                          /\ IF st.thrown # "none"
                             THEN /\ fpc' = "rejected"
                                  /\ UNCHANGED <<fWatchers, fReturned>>
                             ELSE /\ fpc' = "returned"
                                  /\ fWatchers' = fWatchers - 1
                                  /\ fReturned' = <<>>
    /\ UNCHANGED <<fNames, fCopy, fIssued, exceptFetchCopy>>

NextFetch == FetchCall \/ FetchWatcherEvent \/ FetchRetrieveExit

SpecFetch == InitFetch /\ [][NextFetch]_vars

----------------------------------------------------------------------------
(* configWizard: authorize the GitHub CLI, clone, create the project, authorize the org *)

\* How often the wizard is chosen from the menu at most.
MaxWizardRuns == 2

\* The exit codes a command of the wizard can end with (git fails with 128).
WizardCodes == {0, 1, 128}

WSpawn(step) == [ev |-> "spawn", step |-> step, code |-> 0]
WExit(step, code) == [ev |-> "exit", step |-> step, code |-> code]
WNotice(step) == [ev |-> "notice", step |-> step, code |-> 0]
WChdir(to) == [ev |-> "chdir", step |-> "", code |-> to]

\* fs.existsSync(`${config.projectName}\\.git`)
gitFolderExistsNever(disk) == FALSE
gitFolderExists(disk) == disk.git

\* if(<step>Result.exit_code != 0) { ...; return false; }
stepFailedNever(result) == FALSE
stepFailed(result) == result.exit_code # 0

\* setupSFDXProject and what follows it in configWizard. With the .sfdx folder
\* present setupSFDXProject returns without a value, and reading exit_code of
\* undefined throws a TypeError out of configWizard.
SetupStep(tr, disk) ==
    IF disk.sfdx
    THEN /\ wpc' = "thrown"
         /\ wTrace' = Append(tr, WNotice("sfdx-exists"))
    ELSE /\ wpc' = "create"
         /\ wTrace' = Append(tr, WSpawn("create"))

\* connectToRepo as called by configWizard, and what follows it.
ConnectStep(tr, disk) ==
    IF gitFolderExists(disk)
    THEN LET noticed == Append(tr, WNotice("git-exists"))
         IN  /\ UNCHANGED wCwd
             /\ IF stepFailed([exit_code |-> 0, output |-> "Git folder already exists"])
                THEN /\ wpc' = "false"
                     /\ wTrace' = noticed
                ELSE SetupStep(noticed, disk)
    ELSE \* navigateToProjectDir(): the project folder is below the current directory
         LET down == IF disk.project THEN wCwd + 1 ELSE wCwd
         IN  /\ wCwd' = down
             /\ wpc' = "clone"
             /\ wTrace' = tr \o <<WChdir(down), WSpawn("clone")>>

InitWizard ==
    /\ config \in { [skipExistingChangeSets |-> TRUE, autoCreatePullRequest |-> a,
                     autofillPullRequestDetails |-> TRUE] : a \in BOOLEAN }
    /\ BatchIdle
    /\ NameIdle
    /\ ExitIdle
    /\ SecretIdle
    /\ MaskIdle
    /\ NavIdle
    /\ WatchIdle
    /\ RunIdle
    /\ ManifestIdle
    /\ StartupIdle
    /\ LogIdle
    /\ CopyIdle
    /\ FetchIdle
    /\ wpc = "idle"
    /\ wTrace = <<>>
    /\ wCwd = 0
    /\ wDisk \in { d \in [project : BOOLEAN, git : BOOLEAN, sfdx : BOOLEAN, token : {FALSE}] :
                     (d.git \/ d.sfdx) => d.project }
    /\ wRuns = 0

\* fs.writeFileSync('temp_token', token) in authorizeGithubCLI
writeFileSync(disk) == [disk EXCEPT !.token = TRUE]

\* Menu choice 0: configWizard(config) up to its first await of a command. The
\* menu comes back after a wizard that returned, so it can be chosen again.
WizardCall ==
    /\ wpc \in {"idle", "true", "false"}
    /\ wRuns < MaxWizardRuns
    /\ wRuns' = wRuns + 1
    /\ LET made == [wDisk EXCEPT !.project = TRUE]   \* fs.mkdirSync(projectName)
       IN  IF config.autoCreatePullRequest
           THEN /\ wDisk' = writeFileSync(made)
                /\ wpc' = "ghAuth"
                /\ wTrace' = <<WSpawn("ghAuth")>>
                /\ UNCHANGED wCwd
           ELSE /\ wDisk' = made
                /\ ConnectStep(<<>>, made)
    /\ UNCHANGED <<flowVars, nameVars, exceptWizard>>

\* An authorizeGithubCLI that leaves temp_token behind
unlinkSyncNever(disk) == disk

\* fs.unlinkSync('temp_token') in authorizeGithubCLI, after the awaited command
unlinkSync(disk) == [disk EXCEPT !.token = FALSE]

\* 'gh auth login' exits: temp_token is removed, then the wizard goes on or stops
WizardGhAuthExit ==
    /\ wpc = "ghAuth"
    /\ \E code \in WizardCodes :
         LET tr == Append(wTrace, WExit("ghAuth", code))
             disk == unlinkSync(wDisk)
         IN  /\ wDisk' = disk
             /\ IF stepFailed([exit_code |-> code])
                THEN /\ wpc' = "false"
                     /\ wTrace' = tr
                     /\ UNCHANGED wCwd
                ELSE ConnectStep(tr, disk)
    /\ UNCHANGED <<wRuns, flowVars, nameVars, exceptWizard>>

\* 'git clone' exits: process.chdir('..'), then the wizard goes on or stops
WizardCloneExit ==
    /\ wpc = "clone"
    /\ \E code \in WizardCodes :
         LET tr == wTrace \o <<WExit("clone", code), WChdir(wCwd - 1)>>
         IN  /\ wCwd' = wCwd - 1
             /\ wDisk' = [wDisk EXCEPT !.git = (code = 0)]
             /\ IF stepFailed([exit_code |-> code])
                THEN /\ wpc' = "false"
                     /\ wTrace' = tr
                ELSE SetupStep(tr, wDisk)
    /\ UNCHANGED <<wRuns, flowVars, nameVars, exceptWizard>>

\* 'sfdx force:project:create' exits
WizardCreateExit ==
    /\ wpc = "create"
    /\ \E code \in WizardCodes :
         LET tr == Append(wTrace, WExit("create", code))
         IN  /\ wDisk' = [wDisk EXCEPT !.sfdx = (code = 0)]
             /\ IF stepFailed([exit_code |-> code])
                THEN /\ wpc' = "false"
                     /\ wTrace' = tr
                ELSE /\ wpc' = "org"
                     /\ wTrace' = Append(tr, WSpawn("org"))
    /\ UNCHANGED <<wCwd, wRuns, flowVars, nameVars, exceptWizard>>

\* 'sfdx auth:web:login' exits
WizardOrgExit ==
    /\ wpc = "org"
    /\ \E code \in WizardCodes :
         /\ wTrace' = Append(wTrace, WExit("org", code))
         /\ wpc' = IF stepFailed([exit_code |-> code]) THEN "false" ELSE "true"
    /\ UNCHANGED <<wCwd, wDisk, wRuns, flowVars, nameVars, exceptWizard>>

NextWizard ==
    \/ WizardCall
    \/ WizardGhAuthExit
    \/ WizardCloneExit
    \/ WizardCreateExit
    \/ WizardOrgExit

SpecWizard == InitWizard /\ [][NextWizard]_vars

----------------------------------------------------------------------------
(* The menu on its own: every waiting prompt reads the same line of input *)

\* How many displayMenu invocations are followed at most.
MaxMenuLoops == 5

\* A line that selects 'git remote show origin', one that selects the change
\* sets of the config file, and one that is neither a menu entry nor y/yes.
MenuLines == { "2", "5", "n" }

MenuProcs == {p \in procs : p.flow = "menu"}

\* The n smallest numbers no process of the menu carries.
RECURSIVE FreshUnits(_, _)
FreshUnits(n, used) ==
    IF n = 0 THEN {}
    ELSE LET u == CHOOSE k \in 1..(Cardinality(used) + 1) : k \notin used
         IN  {u} \cup FreshUnits(n - 1, used \cup {u})

InitMenu ==
    /\ FlowIdle
    /\ NameIdle
    /\ CompIdle

\* A line is entered. prompt() makes a readline interface on process.stdin for
\* every question, so every question that is waiting is answered with the line.
\* At 'Enter Selection:' the line '2' spawns the command, '5' leads to the
\* 'Y/N:' prompt of getChangesetsFromFile, any other line falls through the
\* switch to displayMenu() at line 168. At 'Y/N:' a line other than y/yes calls
\* displayMenu() (line 308), the entry point returns and the displayMenu that
\* awaited it calls displayMenu() as well (line 168).
MenuLine ==
    /\ ~hostExited
    /\ menuPrompts + confirmPrompts > 0
    /\ \E line \in MenuLines :
         LET spawned == IF line = "2" THEN menuPrompts ELSE 0
             asked == IF line = "5" THEN menuPrompts ELSE 0
             shown == (IF line \in {"2", "5"} THEN 0 ELSE menuPrompts) + 2 * confirmPrompts
             units == FreshUnits(spawned, {p.unit : p \in MenuProcs})
         IN  /\ shown + asked + spawned + Cardinality(MenuProcs) <= MaxMenuLoops
             /\ menuPrompts' = shown
             /\ confirmPrompts' = asked
             /\ procs' = procs \cup {Proc("menu", u, remoteShow, FALSE) : u \in units}
    /\ UNCHANGED <<config, batch, idx, bpc, downloadedFiles, returnedFiles, addIdx, watchers, trace,
                   unitFailed, folders, gitBranches, gitHead,
                   hostExited, branchExists, nameVars, compVars>>

NextMenu == MenuLine \/ MenuCommandExit

SpecMenu == InitMenu /\ [][NextMenu]_vars

----------------------------------------------------------------------------
(* navigateToProjectDir and connectToRepo: the working directory as a path *)

\* let maxIterations = 20
maxIterations == 20

\* config.projectName, and the separator of path components
ProjectName == <<"p">>
Sep == <<"/">>

\* The directory the program is installed in, the project folder below it with
\* a sub folder, a sibling whose name begins with the project name, a sibling
\* whose name ends with it, and a directory elsewhere.
RootDir == <<"/", "r">>
ProjectDir == RootDir \o Sep \o ProjectName
ProjectSubDir == ProjectDir \o <<"/", "s">>
ProjectSubSubDir == ProjectSubDir \o <<"/", "s">>
SiblingDir == RootDir \o <<"/", "p", "q">>
SiblingSubDir == SiblingDir \o <<"/", "s">>
SuffixDir == RootDir \o <<"/", "q", "p">>
SuffixSubDir == SuffixDir \o <<"/", "s">>
OtherDir == <<"/", "q">>
DirsWithoutProject ==
    {Sep, RootDir, SiblingDir, SiblingSubDir, SuffixDir, SuffixSubDir, OtherDir}
DirsWithProject == DirsWithoutProject \cup {ProjectDir, ProjectSubDir, ProjectSubSubDir}

\* The path of the parent directory; the parent of the top directory is itself.
RECURSIVE parentDir(_)
parentDir(dir) ==
    IF Len(dir) <= 1 THEN Sep
    ELSE IF dir[Len(dir)] = "/"
    THEN (IF Len(dir) = 1 THEN Sep ELSE SubSeq(dir, 1, Len(dir) - 1))
    ELSE parentDir(SubSeq(dir, 1, Len(dir) - 1))

\* The path of the entry name in dir.
childDir(dir, name) == IF dir = Sep THEN Sep \o name ELSE dir \o Sep \o name

\* The while loop of navigateToProjectDir: process.chdir('..') until the path
\* ends with the project name or currentIterations exceeds maxIterations.
RECURSIVE navigateUp(_, _)
navigateUp(currentPath, currentIterations) ==
    IF endsWith(currentPath, ProjectName)
    THEN [cwd |-> currentPath, ups |-> currentIterations]
    ELSE IF currentIterations + 1 > maxIterations
    THEN [cwd |-> parentDir(currentPath), ups |-> currentIterations + 1]
    ELSE navigateUp(parentDir(currentPath), currentIterations + 1)

\* navigateToProjectDir() called in the directory cwd
navigateToProjectDir(cwd, dirs) ==
    IF indexOf(cwd, ProjectName) > -1
    THEN navigateUp(cwd, 0)
    ELSE IF childDir(cwd, ProjectName) \in dirs
    THEN [cwd |-> childDir(cwd, ProjectName), ups |-> 0]
    ELSE [cwd |-> cwd, ups |-> 0]

\* fs.existsSync(`${config.projectName}\\.git`) in the directory cwd
dotGitExists(cwd, dirs, git) == git /\ cwd = RootDir /\ ProjectDir \in dirs

InitNav ==
    /\ FlowIdle
    /\ NameIdle
    /\ ExitIdle
    /\ SecretIdle
    /\ MaskIdle
    /\ WatchIdle
    /\ RunIdle
    /\ ManifestIdle
    /\ StartupIdle
    /\ LogIdle
    /\ CopyIdle
    /\ FetchIdle
    /\ WizardIdle
    /\ navDirs \in {DirsWithProject, DirsWithoutProject}
    /\ navGit \in BOOLEAN
    /\ navGit => ProjectDir \in navDirs
    /\ navStart \in navDirs
    /\ navCwd = navStart
    /\ navUps = 0
    /\ navPc = "idle"

\* navigateToProjectDir() as called at the start of getPackageXML
Navigate ==
    /\ navPc = "idle"
    /\ LET r == navigateToProjectDir(navCwd, navDirs)
       IN  /\ navCwd' = r.cwd
           /\ navUps' = r.ups
    /\ navPc' = "navigated"
    /\ UNCHANGED <<navDirs, navGit, navStart, exceptNav>>

\* connectToRepo (menu choice 1, or from configWizard) up to the await of the clone
ConnectCall ==
    /\ navPc = "idle"
    /\ IF dotGitExists(navCwd, navDirs, navGit)
       THEN /\ navPc' = "skipped"
            /\ UNCHANGED <<navCwd, navUps>>
       ELSE LET r == navigateToProjectDir(navCwd, navDirs)
            IN  /\ navCwd' = r.cwd
                /\ navUps' = r.ups
                /\ navPc' = "clone"
    /\ UNCHANGED <<navDirs, navGit, navStart, exceptNav>>

\* 'git clone <url> .' exits with whatever code: process.chdir('..')
ConnectCloneExit ==
    /\ navPc = "clone"
    /\ \E code \in {0, 128} :
          navGit' = (navGit \/ (code = 0 /\ navCwd = ProjectDir))
    /\ navCwd' = parentDir(navCwd)
    /\ navPc' = "returned"
    /\ UNCHANGED <<navDirs, navStart, navUps, exceptNav>>

NextNav == Navigate \/ ConnectCall \/ ConnectCloneExit

SpecNav == InitNav /\ [][NextNav]_vars

----------------------------------------------------------------------------
(* maskString *)

\* The longest string given to maskString.
MaxMaskLen == 5

\* maskPercent: the default of 80 and values whose product with a length has
\* an exact floating-point value.
MaskPercents == {0, 50, 80, 100}
MaskChars == {"a", "b"}

\* Math.round(stringLength * (maskPercent/100)): halves are rounded upwards
numMaskChars(stringLength, percent) == (stringLength * percent + 50) \div 100

\* Array(n).join('*'): n empty elements with an asterisk between neighbours
arrayJoin(n) == [i \in 1..(IF n > 0 THEN n - 1 ELSE 0) |-> "*"]

\* String.prototype.substr(start) for a start that is not negative
substr(s, start) == IF start >= Len(s) THEN <<>> ELSE SubSeq(s, start + 1, Len(s))

\* maskString(maskString, maskPercent = 80)
maskString(s, percent) ==
    LET stringLength == Len(s)
        n == numMaskChars(stringLength, percent)
    IN  arrayJoin(n) \o substr(s, stringLength - (stringLength - n))

InitMask ==
    /\ FlowIdle
    /\ NameIdle
    /\ ExitIdle
    /\ SecretIdle
    /\ WatchIdle
    /\ RunIdle
    /\ ManifestIdle
    /\ StartupIdle
    /\ LogIdle
    /\ CopyIdle
    /\ FetchIdle
    /\ WizardIdle
    /\ NavIdle
    /\ maskInput \in SeqsUpTo(MaskChars, MaxMaskLen)
    /\ maskPercent \in MaskPercents
    /\ maskOutput = <<>>
    /\ maskPc = "ready"

Mask ==
    /\ maskPc = "ready"
    /\ maskOutput' = maskString(maskInput, maskPercent)
    /\ maskPc' = "done"
    /\ UNCHANGED <<maskInput, maskPercent, exceptMask>>

NextMask == Mask

SpecMask == InitMask /\ [][NextMask]_vars

-----------------------------------------------------------------------------
(* authorizeGithubCLI and connectToRepo: what they pass to log *)

MaxTokenLen == 4
MaxUrlLen == 3

\* Characters of a personal access token; no other text of the program has them
TokenChars == {"X", "Z"}
Tokens == SeqsUpTo(TokenChars, MaxTokenLen) \ {<<>>}

Https ==
    <<"h","t","t","p","s",":","/","/">>

\* Repository URLs as configured: without a user name, and with one before an '@'
RepoUrls ==
    {Https \o [i \in 1..n |-> "h"] : n \in 1..MaxUrlLen} \cup {Https \o <<"u", "@", "h">>}

gitUsername == <<"u">>

AuthorizingText ==
    <<"A","u","t","h","o","r","i","z","i","n","g"," ","G","i","t","h","u","b"," ","c","o","n",
      "n","e","c","t","i","o","n"," ","w","i","t","h"," ","p","e","r","s","o","n","a","l"," ",
      "a","c","c","e","s","s"," ","t","o","k","e","n",":"," ">>

GhCommand ==
    <<"g","h"," ","a","u","t","h"," ","l","o","g","i","n"," ","-","-","w","i","t","h","-","t",
      "o","k","e","n"," ","<","t","e","m","p","_","t","o","k","e","n">>

CommandCompleteText ==
    <<"C","o","m","m","a","n","d"," ","c","o","m","p","l","e","t","e","."," ","R","e","s","u",
      "l","t",":"," ">>

CloneResultText ==
    <<"C","l","o","n","e"," ","p","r","o","c","e","s","s"," ","r","e","s","u","l","t",":"," ">>

CurrentFolderText ==
    <<"C","u","r","r","e","n","t"," ","f","o","l","d","e","r"," ">>

ChangingText ==
    <<"."," ","C","h","a","n","g","i","n","g"," ","i","n","t","o"," ","p","r","o","j","e","c",
      "t"," ","f","o","l","d","e","r"," ">>

ChangingIntoSubText ==
    <<"C","h","a","n","g","i","n","g"," ","i","n","t","o"," ","s","u","b"," ","d","i","r","e",
      "c","t","o","r","y"," ">>

GitClone ==
    <<"g","i","t"," ","c","l","o","n","e"," ">>

ExitCodeText == [c \in {0, 1} |-> IF c = 0 THEN <<"0">> ELSE <<"1">>]

\* What the commands print, as the program sees it; none of it is the token
CommandOutputs == {<<>>, <<"o">>}

\* JSON.stringify({'exit_code': code, 'output': output}, null, 2)
stringify(code, output) ==
    <<"{","\n"," "," ","\"","e","x","i","t","_","c","o","d","e","\"",":"," ">>
    \o ExitCodeText[code] \o
    <<",","\n"," "," ","\"","o","u","t","p","u","t","\"",":"," ","\"">>
    \o output \o
    <<"\"","\n","}">>

\* String.prototype.slice(start, end) for bounds within the string
slice(s, start, end) == SubSeq(s, start + 1, end)

\* The repoURN of connectToRepo: user name and token go in after 'https://'
\* unless the configured URL has an '@'
repoURN(userName, pat, repoURL) ==
    IF indexOf(repoURL, <<"@">>) = -1
    THEN LET position == 8
         IN  slice(repoURL, 0, position) \o userName \o <<":">> \o pat \o <<"@">>
                \o slice(repoURL, position, Len(repoURL))
    ELSE repoURL

\* The command of connectToRepo
cloneCommand(userName, pat, repoURL) ==
    GitClone \o repoURN(userName, pat, repoURL) \o <<" ", ".">>

InitSecret ==
    /\ FlowIdle
    /\ NameIdle
    /\ ExitIdle
    /\ WatchIdle
    /\ RunIdle
    /\ ManifestIdle
    /\ StartupIdle
    /\ LogIdle
    /\ CopyIdle
    /\ FetchIdle
    /\ WizardIdle
    /\ NavIdle
    /\ MaskIdle
    /\ secToken \in Tokens
    /\ secUrl \in RepoUrls
    /\ secLog = <<>>
    /\ secPc = "idle"

\* authorizeGithubCLI(token) up to the await of the command: the message with
\* the masked token, then the command line that runCommand logs
LogAuthorizeCall ==
    /\ secPc = "idle"
    /\ secLog' = secLog \o << AuthorizingText \o maskString(secToken, 80),
                              GhCommand \o <<" ">> >>
    /\ secPc' = "ghAuth"
    /\ UNCHANGED <<secToken, secUrl, flowVars, nameVars, exceptSecret>>

\* 'gh auth login' prints something or nothing and exits: runCommand logs the
\* output and the result
LogAuthorizeExit ==
    /\ secPc = "ghAuth"
    /\ \E code \in {0, 1}, output \in CommandOutputs :
         /\ secLog' = secLog
                        \o (IF output = <<>> THEN <<>> ELSE <<output>>)
                        \o << CommandCompleteText \o stringify(code, output) >>
         /\ secPc' = IF code # 0 THEN "done" ELSE "authorized"
    /\ UNCHANGED <<secToken, secUrl, flowVars, nameVars, exceptSecret>>

\* connectToRepo up to the await of the clone, started in the root directory:
\* the command is run with nolog, so nothing of it is logged yet
LogConnectCall ==
    /\ secPc \in {"idle", "authorized"}
    /\ secLog' = secLog \o << CurrentFolderText \o RootDir \o ChangingText \o ProjectName,
                              ChangingIntoSubText \o ProjectName >>
    /\ secPc' = "clone"
    /\ UNCHANGED <<secToken, secUrl, flowVars, nameVars, exceptSecret>>

\* 'git clone' exits: the masked command and the result are logged
LogConnectExit ==
    /\ secPc = "clone"
    /\ \E code \in {0, 1}, output \in CommandOutputs :
         secLog' = secLog \o << maskString(cloneCommand(gitUsername, secToken, secUrl), 80),
                                CloneResultText \o stringify(code, output) >>
    /\ secPc' = "done"
    /\ UNCHANGED <<secToken, secUrl, flowVars, nameVars, exceptSecret>>

NextSecret ==
    \/ LogAuthorizeCall
    \/ LogAuthorizeExit
    \/ LogConnectCall
    \/ LogConnectExit

SpecSecret == InitSecret /\ [][NextSecret]_vars

-----------------------------------------------------------------------------
(* finish and the uncaughtException handler: the exit status of the process *)

\* process.exit(1) in finish
finishStatus == 1

\* process.exit(1) in the uncaughtException handler
uncaughtStatus == 1

\* Menu choice 10 at the 'Enter Selection:' prompt that init leads to: finish()
\* logs two lines and ends the process
finish ==
    /\ initPc = "menu"
    /\ exitCause = "none"
    /\ exitCause' = "finish"
    /\ exitStatus' = finishStatus
    /\ UNCHANGED <<flowVars, nameVars, exceptExit>>

\* The error thrown by init (an invalid configuration, or a gitUsername that
\* is missing) has no catch: it reaches the uncaughtException handler, which
\* logs it and ends the process
uncaughtException ==
    /\ initPc = "aborted"
    /\ exitCause = "none"
    /\ exitCause' = "uncaughtException"
    /\ exitStatus' = uncaughtStatus
    /\ UNCHANGED <<flowVars, nameVars, exceptExit>>

NextExit ==
    \/ init
    \/ finish
    \/ uncaughtException

SpecExit == InitStartup /\ [][NextExit]_vars

----------------------------------------------------------------------------
(* Properties *)

SpawnedKinds(kinds) ==
    {i \in 1..Len(trace) : trace[i].ev = "spawn" /\ trace[i].cmd.kind \in kinds}
MarksOf(ev, info) ==
    {i \in 1..Len(trace) : trace[i].ev = ev /\ trace[i].info = info}
BatchProcs == {p \in procs : p.flow = "batch"}

\* C1: once a command of a unit has exited non-zero, no git add, git commit
\* or git push is issued for that unit.
C1_NoStagingAfterFailure ==
    \A p \in BatchProcs : p.cmd.kind \in StagingKinds => ~p.afterFail

\* C2: the batch never ends, by completion, by an exception or by the end of
\* the process, before its last unit has been started.
C2_EveryUnitStarted ==
    (bpc \in {"done", "crashed"} \/ hostExited) => idx = Len(batch)

\* C3: a watcher is open only while its retrieval is running, so at most one
\* is open and none is open between two units.
C3_WatcherClosedAfterRetrieval ==
    /\ Cardinality(watchers) <= 1
    /\ \A w \in watchers :
          \E p \in procs : /\ p.flow = w.flow
                           /\ p.unit = w.unit
                           /\ p.cmd.kind = "retrieve-p"

\* C4: at most one child process spawned by runCommand is alive.
C4_OneProcessAtATime == Cardinality(procs) <= 1

\* C5: the commands of a unit are issued in the order branch-ensure,
\* checkout, retrieval, git add, commit, push; the checkout names the derived
\* branch, the retrieval the change set, the commit its description; and
\* every command of a unit has finished when the next unit begins.
PhaseRank(kind) ==
    CASE kind \in {"branch-l", "branch-f"} -> 1
      [] kind = "checkout-b" -> 2
      [] kind = "retrieve-p" -> 3
      [] kind = "add" -> 4
      [] kind = "commit" -> 5
      [] kind = "push" -> 6
      [] OTHER -> 0

C5_PhasesInOrder ==
    LET sp == {i \in 1..Len(trace) : trace[i].ev = "spawn"}
    IN  \A i, j \in sp : i < j => PhaseRank(trace[i].cmd.kind) <= PhaseRank(trace[j].cmd.kind)

C5_UnitCommandsNameTheUnit ==
    \A i \in 1..Len(trace) :
       trace[i].ev = "spawn" =>
          /\ trace[i].cmd.kind = "checkout-b" =>
                trace[i].cmd.arg = convertPackgeNameToGitName(batch[idx])
          /\ trace[i].cmd.kind = "retrieve-p" => trace[i].cmd.arg = batch[idx]
          /\ (trace[i].cmd.kind = "commit" /\ folders[batch[idx]] = "desc") =>
                trace[i].cmd.arg = Description(batch[idx])

C5_UnitsOneAfterAnother == \A p \in BatchProcs : p.unit = idx

C5_OrderedPipeline ==
    /\ idx <= Len(batch)
    /\ C5_PhasesInOrder
    /\ C5_UnitCommandsNameTheUnit
    /\ C5_UnitsOneAfterAnother

\* C6 as stated: every maximal run of whitespace becomes exactly one hyphen
\* and every other character is kept.
RunStarts(s) ==
    {i \in 1..Len(s) : ~(i > 1 /\ s[i] \in Whitespace /\ s[i - 1] \in Whitespace)}
C6_OneHyphenPerRun ==
    nameStep >= 1 =>
       LET keep == RunStarts(packageName)
           at(k) == CHOOSE i \in keep : Cardinality({j \in keep : j <= i}) = k
       IN  /\ Len(gitName) = Cardinality(keep)
           /\ \A k \in 1..Len(gitName) :
                 gitName[k] = IF packageName[at(k)] \in Whitespace THEN "-"
                              ELSE packageName[at(k)]

\* C6 as amended: every whitespace character becomes one hyphen, in place,
\* and every other character is kept.
C6_OneHyphenPerWhitespace ==
    nameStep >= 1 =>
       /\ Len(gitName) = Len(packageName)
       /\ \A i \in 1..Len(packageName) :
             gitName[i] = IF packageName[i] \in Whitespace THEN "-" ELSE packageName[i]

C6_Witness ==
    /\ nameStep >= 1
    /\ \E i \in 1..(Len(packageName) - 1) :
          /\ packageName[i] \in Whitespace
          /\ packageName[i + 1] \in Whitespace
          /\ gitName[i] = "-"
          /\ gitName[i + 1] = "-"

\* C7: the derived name contains no whitespace and deriving again from it
\* returns it unchanged.
C7_DerivedNameStable ==
    /\ nameStep >= 1 => \A i \in 1..Len(gitName) : gitName[i] \notin Whitespace
    /\ nameStep = 2 => gitNameAgain = gitName

C7_Witness ==
    /\ nameStep = 2
    /\ Cardinality({i \in 1..Len(packageName) : packageName[i] \in Whitespace}) >= 2
    /\ gitName # packageName

\* C8 as stated: the branch named by the existence query, the creation, the
\* checkout and the push of a unit is the derived name of its label.
C8_EveryStepNamesDerivedBranch ==
    \A i \in SpawnedKinds({"branch-l", "branch-f", "checkout-b", "push"}) :
       trace[i].cmd.arg = convertPackgeNameToGitName(batch[idx])

\* C8 as amended: the existence query, the creation and the checkout name
\* the derived name of the label; the push names HEAD.
C8_BranchCommandsNameDerivedBranch ==
    /\ \A i \in SpawnedKinds({"branch-l", "branch-f", "checkout-b"}) :
          trace[i].cmd.arg = convertPackgeNameToGitName(batch[idx])
    /\ \A i \in SpawnedKinds({"push"}) : trace[i].cmd.arg = HEAD
    /\ \A p \in BatchProcs :
          /\ p.cmd.kind \in {"branch-l", "branch-f", "checkout-b"} =>
                p.cmd.arg = convertPackgeNameToGitName(batch[p.unit])
          /\ p.cmd.kind = "push" => p.cmd.arg = HEAD

C8_Witness ==
    /\ bpc = "push"
    /\ SpawnedKinds({"checkout-b"}) # {}
    /\ SpawnedKinds({"push"}) # {}
    /\ convertPackgeNameToGitName(batch[idx]) # batch[idx]

\* C9: when createGitBranch has returned, it has issued the creation command
\* exactly if no local branch of the derived name existed.
C9_CreatesExactlyWhenAbsent ==
    SpawnedKinds({"checkout-b"}) # {} =>
       \A i \in SpawnedKinds({"branch-l"}) :
          (trace[i].info = "absent") <=> (SpawnedKinds({"branch-f"}) # {})

C11_TouchedFilesFilteredOnce ==
    watchPc = "returned" =>
       /\ \A f \in Files :
             Cardinality({i \in 1..Len(modifiedFiles) : modifiedFiles[i] = f}) =
                IF endsWith(f, DotXml) /\ (\E j \in 1..Len(fsEvents) : fsEvents[j].filename = f)
                THEN 1 ELSE 0
       /\ \A i \in 1..Len(modifiedFiles) : modifiedFiles[i] \in Files

\* create a.xml, modify a.xml, create b.txt, create c.xml gives a.xml, c.xml
C11_Witness ==
    /\ watchPc = "returned"
    /\ fsEvents = << FsEvent("rename", <<"a",".","x","m","l">>),
                     FsEvent("change", <<"a",".","x","m","l">>),
                     FsEvent("rename", <<"b",".","t","x","t">>),
                     FsEvent("rename", <<"c",".","x","m","l">>) >>
    /\ modifiedFiles = << <<"a",".","x","m","l">>, <<"c",".","x","m","l">> >>

RECURSIVE Flatten(_)
Flatten(chunks) ==
    IF chunks = <<>> THEN <<>> ELSE Head(chunks) \o Flatten(Tail(chunks))

\* C12: the promise of runCommand is never rejected, is fulfilled only once
\* the process has exited, carries the exit code of the process whether zero
\* or not, and once fulfilled never changes.
C12_SettledCarriesExitCode ==
    /\ promise.state \in {"pending", "fulfilled"}
    /\ promise.state = "fulfilled" =>
          /\ child.state = "exited"
          /\ promise.value.exit_code = child.code

C12_ResolvedOnceAfterExit ==
    /\ []C12_SettledCarriesExitCode
    /\ [][promise.state = "fulfilled" => promise' = promise]_vars

C12_Witness ==
    /\ promise.state = "fulfilled"
    /\ promise.value.exit_code = 1
    /\ arrived # <<>>

\* C13: the output of the result the promise was resolved with is the
\* concatenation, in arrival order, of every chunk delivered by a data
\* event, whenever the data events come relative to the exit event.
C13_OutputHasEveryChunk ==
    promise.state = "fulfilled" => promise.value.output = Flatten(arrived)

AddsIssued ==
    LET RECURSIVE adds(_)
        adds(n) == IF n = 0 THEN <<>>
                   ELSE IF trace[n].ev = "spawn" /\ trace[n].cmd.kind = "add"
                        THEN Append(adds(n - 1), trace[n].cmd.arg)
                        ELSE adds(n - 1)
    IN  adds(Len(trace))

\* C14: no git commit is issued with an empty message or with the text
\* "undefined" as its message.
C14_NoPlaceholderCommit ==
    \A i \in SpawnedKinds({"commit"}) : trace[i].cmd.arg \notin {<<>>, Undefined}

\* C15: the git add commands issued for a unit name, in order, the paths of
\* the list fetchChangeSets returned for it: never a path that is not in
\* that list, never a path twice, and all of them once the commit is issued.
C15_AddsFollowReturnedList ==
    /\ Len(AddsIssued) <= Len(returnedFiles)
    /\ AddsIssued = SubSeq(returnedFiles, 1, Len(AddsIssued))
    /\ SpawnedKinds({"commit"}) # {} => AddsIssued = returnedFiles
    /\ \A p \in BatchProcs : p.cmd.kind = "add" => p.cmd.arg \in Files

MSpawnedKinds(kinds) ==
    {i \in 1..Len(mTrace) : mTrace[i].ev = "spawn" /\ mTrace[i].what.kind \in kinds}
MExitedKinds(kinds) ==
    {i \in 1..Len(mTrace) : mTrace[i].ev = "exit" /\ mTrace[i].what.kind \in kinds}
MPrompts(query) ==
    {i \in 1..Len(mTrace) : mTrace[i].ev = "prompt" /\ mTrace[i].what.kind = query}

\* C16: in the manifest flow the pull-request command is issued only with
\* autoCreatePullRequest enabled and only after the push has exited; when
\* the flow has ended after a push with the option enabled, the command was
\* issued; with the option disabled no gh command and no browser is started.
C16_PullRequestOnlyIfEnabled ==
    /\ \A i \in MSpawnedKinds({"pr"}) :
          /\ config.autoCreatePullRequest
          /\ \E j \in MExitedKinds({"push"}) : j < i
    /\ (config.autoCreatePullRequest /\ mpc = "done" /\ MSpawnedKinds({"push"}) # {})
          => MSpawnedKinds({"pr"}) # {}
    /\ ~config.autoCreatePullRequest =>
          /\ MSpawnedKinds({"pr", "open"}) = {}
          /\ \A c \in mProcs : c.kind \notin {"pr", "open"}

C16_Witness ==
    /\ config.autoCreatePullRequest
    /\ mpc = "done"
    /\ \E i \in MSpawnedKinds({"pr"}) : \E j \in MExitedKinds({"push"}) : j < i
\* C17: the pull-request command carries --fill exactly when the title or
\* the description is empty, carries --title and --body with the given texts
\* exactly when both are non-empty, never carries --fill together with them,
\* and is issued whatever the title and the description are.
C17_FillExactlyWhenMissing ==
    /\ \A i \in MSpawnedKinds({"pr"}) :
          LET c == mTrace[i].what
              missing == c.title = <<>> \/ c.body = <<>>
          IN  /\ ("--fill" \in c.flags) <=> missing
              /\ ({"--title", "--body"} \subseteq c.flags) <=> ~missing
              /\ ~("--fill" \in c.flags /\ c.flags \cap {"--title", "--body"} # {})
              /\ c.title = prTitle
              /\ c.body = prDescription
    /\ mpc = "pr" => \E c \in mProcs : c.kind = "pr"

C17_Witness ==
    /\ mpc = "done"
    /\ \E i \in MSpawnedKinds({"pr"}) :
          /\ mTrace[i].what.title # <<>>
          /\ mTrace[i].what.body = <<>>
          /\ mTrace[i].what.flags = {"--fill"}
    /\ MPrompts("title") # {}

\* C18: with autoCreatePullRequest enabled, the pull-request command is
\* preceded by a prompt for the title and a prompt for the description, both
\* shown after the push has exited.
C18_PromptsBeforePullRequest ==
    config.autoCreatePullRequest =>
       \A i \in MSpawnedKinds({"pr"}) :
          \E p \in MExitedKinds({"push"}), t \in MPrompts("title"),
             d \in MPrompts("description") : p < t /\ t < d /\ d < i

\* C19: init shows the menu exactly if the merged configuration is valid: a
\* configuration with an empty string under some key is aborted, and one
\* whose values are all non-empty strings or booleans, true or false, is
\* accepted.
StrictEqualsEmptyString(v) == v.t = "string" /\ v.v = <<>>
AcceptableValue(v) ==
    \/ v.t = "string" /\ v.v # <<>>
    \/ v.t = "boolean"
C19_MenuIffConfigValid ==
    initPc \in {"menu", "aborted"} =>
       LET present == {k \in ConfigKeys : mergedConfig[k] # Absent}
       IN  /\ (\E k \in present : StrictEqualsEmptyString(mergedConfig[k]))
                 => initPc = "aborted"
           /\ ( /\ mergedConfig["gitUsername"].t = "string"
                /\ ~HasAt(mergedConfig["gitUsername"].v)
                /\ \A k \in present : AcceptableValue(mergedConfig[k]) )
                 => initPc = "menu"

\* C20: the lines of log.txt are in the order of the log calls that wrote
\* them.
C20_LogFileInCallOrder ==
    \A i, j \in 1..Len(logFile) : i < j => logFile[i] < logFile[j]

\* The files of a folder tree, each as its path relative to the folder.
RECURSIVE FilesBelow(_)
FilesBelow(node) ==
    UNION { IF node.children[i].isDir
            THEN { <<node.children[i].name>> \o p : p \in FilesBelow(node.children[i]) }
            ELSE { <<node.children[i].name>> }
          : i \in 1..Len(node.children) }

\* C21: after copyPackageIntoProjectFolder every file of the retrieved change
\* set is in the project's source tree with the retrieved contents, at its
\* relative path (counted from the change set's folder or from its parent), and
\* the call ended without an exception.
C21_EveryFileCopied ==
    (copyCalls >= 1 /\ copySource # NoFolder) =>
        /\ copyThrown = "none"
        /\ \A rel \in FilesBelow(copySource) :
              \/ Target \o rel \in copyDisk.fresh
              \/ Target \o <<PackageFolder>> \o rel \in copyDisk.fresh

\* C23: when fetchChangeSets has returned, a retrieval was issued for every
\* name of its list that is not skipped: a name it issued none for has its
\* folder present while skipExistingChangeSets is set.
C23_EveryNameRetrieved ==
    fpc = "returned" =>
        \A i \in 1..Len(fNames) :
            (\A j \in 1..Len(fIssued) : fIssued[j] # fNames[i])
                => skipDownload(fFolders, fNames[i])

\* C24: when fetchChangeSets was called with copyToProjectFolder and the
\* retrieved change set holds .xml files for the copy to write, the call
\* returns, and the list it returns is not empty.
C24_CopiedFilesReturned ==
    (/\ fCopy
     /\ fpc \in {"returned", "rejected"}
     /\ fIssued # <<>>
     /\ \E rel \in FilesBelow(copySource) : rel[Len(rel)] \in XmlFileNames)
        => fpc = "returned" /\ fReturned # <<>>

WizardRank(step) ==
    CASE step = "ghAuth" -> 1 [] step = "clone" -> 2 [] step = "create" -> 3 [] OTHER -> 4
WSpawns == {i \in 1..Len(wTrace) : wTrace[i].ev = "spawn"}
WExits == {i \in 1..Len(wTrace) : wTrace[i].ev = "exit"}

\* C22: with the project's .git folder present connectToRepo spawns no clone
\* and changes no directory, it reports that the folder exists, and the
\* wizard goes on to setupSFDXProject instead of returning false.
C22_ExistingRepoSkipsClone ==
    /\ wpc = "clone" => ~wDisk.git
    /\ \A i \in 1..Len(wTrace) :
          wTrace[i] = WNotice("git-exists") =>
              /\ \A k \in 1..Len(wTrace) :
                    wTrace[k] # WSpawn("clone") /\ wTrace[k].ev # "chdir"
              /\ wCwd = 0
              /\ i < Len(wTrace)
              /\ wTrace[i + 1] \in {WSpawn("create"), WNotice("sfdx-exists")}

C22_Witness ==
    /\ wpc = "true"
    /\ \E i \in 1..Len(wTrace) : wTrace[i] = WNotice("git-exists")

\* C25: with the .sfdx folder present setupSFDXProject spawns no creation
\* command and configWizard goes on to authorize the org.
C25_ExistingProjectGoesOn ==
    \A i \in 1..Len(wTrace) :
        wTrace[i] = WNotice("sfdx-exists") =>
            /\ wpc # "thrown"
            /\ \A k \in 1..Len(wTrace) : wTrace[k] # WSpawn("create")
            /\ i < Len(wTrace)
            /\ wTrace[i + 1] = WSpawn("org")

\* C26: configWizard spawns its commands in the order GitHub CLI
\* authorization, clone, project creation, org authorization, the first of
\* them exactly when autoCreatePullRequest is set; a command that exits
\* non-zero is the last one spawned and makes the wizard return false; the
\* wizard returns false only then, and true only after the org authorization
\* exited with 0 and no command exited non-zero.
C26_StepsInOrderStopAtFailure ==
    /\ \A i, j \in WSpawns :
          i < j => WizardRank(wTrace[i].step) < WizardRank(wTrace[j].step)
    /\ wTrace # <<>> => (wTrace[1] = WSpawn("ghAuth") <=> config.autoCreatePullRequest)
    /\ \A i \in WExits :
          wTrace[i].code # 0 => wpc = "false" /\ \A j \in WSpawns : j < i
    /\ wpc = "false" => \E i \in WExits : wTrace[i].code # 0
    /\ wpc = "true" =>
          /\ wTrace[Len(wTrace)] = WExit("org", 0)
          /\ \A i \in WExits : wTrace[i].code = 0

C26_Witness ==
    /\ wpc = "false"
    /\ config.autoCreatePullRequest
    /\ wTrace[Len(wTrace)] = WExit("org", 1)
    /\ Cardinality(WSpawns) = 4

\* C27: while populateAndPushBranches is at work on a unit of the batch, no
\* displayMenu invocation is waiting at 'Enter Selection'.
C27_NoMenuDuringBatch ==
    menuPrompts > 0 => bpc \in {"idle", "done", "crashed"}

\* C28: at most one displayMenu loop is active: the prompts waiting at
\* 'Enter Selection:' and at 'Y/N:' and the menu commands awaited are at most
\* one in all.
C28_OneMenuLoop ==
    menuPrompts + confirmPrompts + Cardinality(MenuProcs) <= 1

\* C29: after fetchChangeSets has returned its list to populateAndPushBranches
\* the list keeps the contents it was returned with.
C29_ReturnedListUnchanged ==
    bpc \in {"add", "commit", "push", "done"} => downloadedFiles = returnedFiles

\* C30: a commit or push of a unit whose branch exists is issued while that
\* branch, the one derived from the unit's own label, is checked out.
C30_CommitOnOwnBranch ==
    \A p \in BatchProcs :
        (/\ p.cmd.kind \in {"commit", "push"}
         /\ convertPackgeNameToGitName(batch[p.unit]) \in gitBranches)
            => gitHead = convertPackgeNameToGitName(batch[p.unit])

\* C31: the branch named behind -H in the pull-request command is the branch
\* that was named in the checkout command of the same run of getPackageXML.
C31_HeadIsCheckedOutBranch ==
    \A i \in MSpawnedKinds({"pr"}) :
        \A j \in MSpawnedKinds({"checkout-b"}) :
            mTrace[i].what.arg = mTrace[j].what.arg

\* C32: the command that opens the browser is given a text that begins with
\* 'https:', so none is issued with text that is no URL.
C32_BrowserOpensUrlOnly ==
    \A i \in MSpawnedKinds({"open"}) :
        indexOf(mTrace[i].what.arg, PullRequestUrl) = 0

\* C34: when the path entered for the manifest file names no file,
\* getPackageXML logs that the file was not found and ends: it asks for no
\* branch name, spawns no command and starts no watcher.
C34_MissingManifestStopsFlow ==
    (mpc # "askFile" /\ mFile # ManifestFile) =>
        /\ mpc = "done"
        /\ mTrace = <<MPrompt("file"), MLog("notfound")>>
        /\ mProcs = {}
        /\ ~mWatcher
        /\ mBranch = <<>>
        /\ mFiles = <<>>

C34_Witness ==
    /\ mpc = "done"
    /\ mFile = <<"q">>
    /\ MLog("notfound") \in {mTrace[i] : i \in 1..Len(mTrace)}

\* C33: after a connectToRepo that attempted a clone has returned, the
\* working directory is the one the call was made in, or the directory that
\* holds the project folder.
C33_CloneRestoresDirectory ==
    navPc = "returned" => navCwd \in {navStart, RootDir}

\* C35: navigateToProjectDir makes at most maxIterations + 1 upward changes,
\* and when it was called in a directory whose path contains the project name,
\* the path of the working directory it leaves ends with the project name.
C35_NavigateEndsInProject ==
    /\ navUps <= maxIterations + 1
    /\ (navPc = "navigated" /\ indexOf(navStart, ProjectName) > -1)
          => endsWith(navCwd, ProjectName)

\* C39: maskString returns a string as long as its argument whose first
\* round(length * percent / 100) characters are asterisks and whose other
\* characters are those of the argument at the same positions.
C39_MaskKeepsLength ==
    maskPc = "done" =>
        LET n == numMaskChars(Len(maskInput), maskPercent)
        IN  /\ Len(maskOutput) = Len(maskInput)
            /\ \A i \in 1..Len(maskOutput) :
                  maskOutput[i] = IF i <= n THEN "*" ELSE maskInput[i]

\* C37: the temp_token file exists exactly while authorizeGithubCLI waits for
\* its 'gh auth login' command: it is there from the spawn of the command, and
\* it is gone once the command has exited, whatever its exit code.
C37_TokenFileOnlyDuringLogin ==
    wDisk.token <=> wpc = "ghAuth"

\* 'gh auth login' has failed, the wizard has stopped, and temp_token is gone
C37_Witness ==
    /\ wpc = "false"
    /\ Len(wTrace) = 2
    /\ wTrace[2] \in { WExit("ghAuth", code) : code \in WizardCodes \ {0} }
    /\ ~wDisk.token

\* C36: no text passed to log by authorizeGithubCLI or connectToRepo holds a
\* character of the personal access token
C36_NoTokenInLog ==
    \A i \in 1..Len(secLog) :
        \A j \in 1..Len(secLog[i]) : secLog[i][j] \notin TokenChars

\* C38: the exit status tells a finished run from a fatal one: a process ended
\* by finish() has a status the uncaughtException handler never produces, and
\* a process ended by the handler has a status finish() never produces.
C38_StatusTellsFinishFromFatal ==
    /\ exitCause = "finish" => exitStatus # uncaughtStatus
    /\ exitCause = "uncaughtException" => exitStatus # finishStatus
====
